---- MODULE Spec2Model ----
(***************************************************************************)
(* remote-commander: the embedded shell subsystem.                         *)
(*                                                                         *)
(*   - LocalShell (src/shell.rs): a reader thread appends the bytes it     *)
(*     reads from the pseudo-terminal to output_buffer and refreshes       *)
(*     cached_output; the UI thread calls get_output / clear_output.       *)
(*   - RemoteShell (src/shell.rs): the channel-backed variant.             *)
(*   - run_app (src/main.rs) and App (src/app.rs): the key-event loop.     *)
(*                                                                         *)
(* Bytes are identified by their arrival index in the pseudo-terminal's    *)
(* output stream; a Vec<u8> is a sequence of maximal runs <<lo, hi>> of    *)
(* consecutive arrival indices (lo inclusive, hi exclusive).  The value of *)
(* the byte with arrival index i is Byte(i).                               *)
(***************************************************************************)
EXTENDS Integers, Sequences, FiniteSets, TLC

(***************************************************************************)
(* Program constants                                                       *)
(***************************************************************************)
\* shell.rs:7   const BUFFER_SIZE: usize = 8192;
BUFFER_SIZE == 8192
\* shell.rs:61  if buffer.len() > 100_000
BUFFER_CAP == 100000
\* shell.rs:62  buffer.drain(..50_000)
DRAIN_LEN == 50000
\* U+FFFD REPLACEMENT CHARACTER, what from_utf8_lossy substitutes
REPLACEMENT == 65533
\* ui/terminal.rs:85  TerminalBuffer::new(200, 1000)
MAX_COLS == 200
MAX_LINES == 1000

(***************************************************************************)
(* Bounds of the model                                                     *)
(***************************************************************************)
\* reads with n > 0 the reader performs in one behaviour
MaxReads == 14
\* the same, in the behaviours checked for liveness
MaxReadsLive == 2
\* reads in the behaviours in which the reader thread may panic
MaxReadsPoison == 2
\* clear_output calls the UI thread makes in one behaviour
MaxClears == 1
\* calls made on a remote session in one behaviour
MaxRemoteCalls == 4
\* chunks of output the remote shell sends in one behaviour
MaxRemoteOutput == 2

\* pieces of input the terminal interpreter reads in one behaviour
MaxTokens == 4

\* key presses in the behaviours that follow the panels
MaxKeysNav == 4

\* length up to which the input read so far is remembered
MaxTextKept == 4

\* key presses handled in one behaviour
MaxKeys == 4

\* key presses handled in one behaviour that also calls the terminal pane
MaxKeysPane == 3

\* calls of draw_terminal and clear_terminal_output in one behaviour
MaxPaneCalls == 2

\* keystroke encodings passed to write_input (main.rs:125-143)
InputData == { <<120>>, <<10>>, <<127>>, <<27, 91, 65>> }

\* terminal sizes passed to resize
PtySizes == { <<24, 80>>, <<40, 120>> }
\* a read that fills the buffer to exactly BUFFER_CAP after 12 full reads
MidRead == 1696

\* the sizes n > 0 a read may return (1 ..= BUFFER_SIZE in the code)
ReadSizes == {MidRead, BUFFER_SIZE}

\* the output streams of the shell: each is the endless repetition of one
\* well-formed UTF-8 text.  "AB" U+00E9 U+20AC (41 42 C3 A9 E2 82 AC) has
\* multi-byte sequences that read boundaries and the eviction cut through.
Streams == { <<65, 66, 195, 169, 226, 130, 172>> }

\* a shell that colours its output: the endless repetition of "Hi" ESC[31m
\* (48 69 1B 5B 33 31 6D); byte 50,000 of it is the 'm' that ends a sequence
ColouredStreams == { <<72, 105, 27, 91, 51, 49, 109>> }

VARIABLES
    stream,          \* the text the pseudo-terminal repeats (environment)
    arrived,         \* bytes the reader has read from the pty so far
    reads,           \* number of reads that returned n > 0
    readLimit,       \* reads with n > 0 the shell's output gives rise to
    lastRead,        \* what the latest read returned: "none" before the first
    buf,             \* the reader's local `buf[..n]`: the run just read
    output_buffer,   \* LocalShell.output_buffer : Vec<u8>
    cached_output,   \* LocalShell.cached_output : String
    lock,            \* holder of each mutex: "free" | "reader" | "ui"
    poisoned,        \* whether each mutex is poisoned
    readerPc,        \* reader thread: index into ReaderCode, 0 = in read()
    readerState,     \* "running" (in the loop) | "exited"
    uiOp,            \* UI thread: "idle" | "get_output" | "clear_output"
    uiPc,            \* UI thread: index into the code of uiOp
    returned,        \* value get_output is returning, NoValue otherwise
    clears,          \* number of clear_output calls made
    lastAppend,      \* history: output_buffer at the end of the latest append
    prevAppend,      \* history: output_buffer at the end of the one before
    appendedTo,      \* history: arrival index up to which bytes were appended
    clearedAt,       \* history: appendedTo when output_buffer was last cleared
    appendSinceClear, \* history: the reader changed state since clear_output began
    cachedFrom,      \* history: the bytes cached_output was decoded from
    \* RemoteShell (shell.rs:21-25) and its channel
    remote_buffer,   \* RemoteShell.output_buffer : Vec<u8>
    channelOpen,     \* whether the ssh channel still accepts writes and requests
    channelInput,    \* number of bytes written to the channel
    channelOutput,   \* bytes the remote shell has sent, waiting on the channel
    ptySize,         \* <<rows, cols>> last requested with request_pty_size
    remoteCalls,     \* number of RemoteShell calls made
    remoteResult,    \* <<name, result>> of the latest RemoteShell call
    remoteReturned,  \* value the latest RemoteShell::get_output returned
    \* App (app.rs:23-36) and the event loop of run_app (main.rs:98-183)
    active_panel,         \* "Left" | "Right"
    remote_connection,    \* whether a remote connection was given
    show_help,
    show_terminal,
    terminal_input_mode,
    confirmation_dialog,  \* NoValue or Some(<<action, kind of entry>>)
    status_message,       \* NoValue or Some(the words of the text)
    shells,               \* left_shell, right_shell: "None" | "Local" | "Remote"
    shellUp,              \* per side: the shell's input side still accepts writes
    shellInput,           \* per side: number of bytes delivered to the shell
    loopState,            \* "running" | "quit" (Ok) | "failed" (Err)
    keys,                 \* number of key presses handled
    lastKey,              \* the key press handled last
    transferCalls,        \* calls the latest confirm_action made into transfer
    writeCalls,           \* history: number of write_input calls
    failedWrites,         \* history: number of write_input calls that failed
    lastWrite,            \* history: result of the latest write_input call
    keyLimit,             \* number of key presses a behaviour is followed for
    paneCalls,            \* number of draw_terminal and clear_terminal_output calls
    lastPaneCall,         \* <<name, active panel>> of the latest of these calls
    terminalText,         \* shell_output of the latest draw_terminal
    shellClears,          \* per side: number of clear_output calls on the shell
    panels,               \* left_panel, right_panel : FilePanel (file_panel.rs:7-14)
    listings,             \* lengths of the listings the file systems return
    termRows,             \* rows the terminal now leaves for a panel's listing
    \* parse_ansi_output (ui/terminal.rs:83-88)
    terminal_buffer,      \* buffer : TerminalBuffer
    processAt,            \* where process() stands in its input
    tokens,               \* number of pieces of input read
    lastToken,            \* history: the piece read last
    inputText             \* history: Some(the input read so far) while it is short

localVars ==
    <<stream, arrived, reads, readLimit, lastRead, buf, output_buffer,
      cached_output, lock, poisoned, readerPc, readerState, uiOp, uiPc, returned, clears,
      lastAppend, prevAppend, appendedTo, clearedAt, appendSinceClear,
      cachedFrom>>

remoteVars ==
    <<remote_buffer, channelOpen, channelInput, channelOutput, ptySize,
      remoteCalls, remoteResult, remoteReturned>>

appFields ==
    <<active_panel, remote_connection, show_help, show_terminal,
      terminal_input_mode, confirmation_dialog, status_message, shells>>

\* what the terminal pane's functions change besides the App
paneVars == <<paneCalls, lastPaneCall, terminalText, shellClears>>

\* the two file panels, the file systems behind them and the terminal's size
panelVars == <<panels, listings, termRows>>

appVars ==
    <<appFields, shellUp, shellInput, loopState, keys, lastKey, transferCalls,
      writeCalls, failedWrites, lastWrite, keyLimit, paneVars, panelVars>>

termVars == <<terminal_buffer, processAt, tokens, lastToken, inputText>>

vars == <<localVars, remoteVars, appVars, termVars>>

\* Option<String>: the value a call is returning, if any
\* what a specification of the local session leaves alone
otherThanLocal == <<remoteVars, appVars, termVars>>

\* what a specification of the remote session leaves alone
otherThanRemote == <<localVars, appVars, termVars>>

\* what a specification of the event loop leaves alone
otherThanApp == <<localVars, remoteVars, termVars>>

\* what a specification of the terminal interpreter leaves alone
otherThanTerm == <<localVars, remoteVars, appVars>>

NoValue == <<>>
Some(x) == <<x>>

(***************************************************************************)
(* Vec<u8> as runs of arrival indices                                      *)
(***************************************************************************)
RunLen(r) == r[2] - r[1]

RECURSIVE VecLen(_)
\* Vec::len
VecLen(v) ==
    IF v = <<>> THEN 0 ELSE RunLen(Head(v)) + VecLen(Tail(v))

\* variant: the slice is inserted at the front
ExtendAtFront(v, r) ==
    IF RunLen(r) = 0 THEN v
    ELSE IF v # <<>> /\ r[2] = v[1][1]
         THEN [v EXCEPT ![1] = <<r[1], v[1][2]>>]
         ELSE <<r>> \o v

\* Vec::extend_from_slice(&buf[..n]): the slice goes to the end
ExtendFromSlice(v, r) ==
    IF RunLen(r) = 0 THEN v
    ELSE IF v # <<>> /\ v[Len(v)][2] = r[1]
         THEN [v EXCEPT ![Len(v)] = <<v[Len(v)][1], r[2]>>]
         ELSE Append(v, r)

RECURSIVE DrainNewest(_, _)
\* variant: removes the last n bytes (Vec::truncate(len - n))
DrainNewest(v, n) ==
    IF n = 0 \/ v = <<>> THEN v
    ELSE LET last == v[Len(v)]
             front == SubSeq(v, 1, Len(v) - 1)
         IN  IF RunLen(last) <= n
             THEN DrainNewest(front, n - RunLen(last))
             ELSE Append(front, <<last[1], last[2] - n>>)

RECURSIVE Drain(_, _)
\* Vec::drain(..n): removes the first n bytes (n <= len)
Drain(v, n) ==
    IF n = 0 \/ v = <<>> THEN v
    ELSE IF RunLen(Head(v)) <= n
         THEN Drain(Tail(v), n - RunLen(Head(v)))
         ELSE <<(<<Head(v)[1] + n, Head(v)[2]>>)>> \o Tail(v)

(***************************************************************************)
(* String::from_utf8_lossy                                                 *)
(***************************************************************************)
\* value of the byte with arrival index i
Byte(i) == stream[(i % Len(stream)) + 1]

IsContinuation(b) == b >= 128 /\ b <= 191

\* length of the sequence a lead byte announces; 0: not a lead byte.
\* (E0, ED and the four-byte leads restrict their second byte; the streams
\* of the model do not use them.)
SeqLen(b) ==
    IF b < 128 THEN 1
    ELSE IF b >= 194 /\ b <= 223 THEN 2
    ELSE IF b >= 225 /\ b <= 239 /\ b # 237 THEN 3
    ELSE 0

\* number of continuation bytes at the front of bs, at most k
RECURSIVE ContPrefix(_, _)
ContPrefix(bs, k) ==
    IF k = 0 \/ bs = <<>> \/ ~IsContinuation(Head(bs)) THEN 0
    ELSE 1 + ContPrefix(Tail(bs), k - 1)

CodePoint(bs, n) ==
    IF n = 1 THEN bs[1]
    ELSE IF n = 2 THEN (bs[1] - 192) * 64 + (bs[2] - 128)
    ELSE (bs[1] - 224) * 4096 + (bs[2] - 128) * 64 + (bs[3] - 128)

\* lossy decode of an explicit byte sequence: every maximal ill-formed
\* subsequence becomes one U+FFFD
RECURSIVE Utf8LossyBytes(_)
Utf8LossyBytes(bs) ==
    IF bs = <<>> THEN <<>>
    ELSE LET n == SeqLen(Head(bs))
             k == IF n = 0 THEN 0 ELSE ContPrefix(Tail(bs), n - 1)
         IN  IF n > 0 /\ k = n - 1
             THEN <<CodePoint(bs, n)>> \o Utf8LossyBytes(SubSeq(bs, n + 1, Len(bs)))
             ELSE <<REPLACEMENT>> \o Utf8LossyBytes(SubSeq(bs, k + 2, Len(bs)))

\* the bytes with arrival indices lo .. hi-1
Bytes(lo, hi) == [i \in 1..(hi - lo) |-> Byte(lo + i - 1)]

\* first index >= lo (and <= hi) at which a character of the stream starts
RECURSIVE CharStartFrom(_, _)
CharStartFrom(lo, hi) ==
    IF lo >= hi \/ ~IsContinuation(Byte(lo)) THEN lo ELSE CharStartFrom(lo + 1, hi)

\* last index <= hi (and >= lo) at which a character of the stream starts
RECURSIVE CharStartUpTo(_, _)
CharStartUpTo(lo, hi) ==
    IF hi <= lo \/ ~IsContinuation(Byte(hi)) THEN hi ELSE CharStartUpTo(lo, hi - 1)

\* A run splits into ragged bytes at its two ends and whole characters of the
\* stream in between.  Items: [raw |-> bytes] and
\* [ph |-> phase in the stream, n |-> byte length] for whole characters.
RunItems(r) ==
    LET s == CharStartFrom(r[1], r[2])
        e == CharStartUpTo(s, r[2])
    IN  (IF s > r[1] THEN <<[raw |-> Bytes(r[1], s)]>> ELSE <<>>)
        \o (IF e > s THEN <<[ph |-> s % Len(stream), n |-> e - s]>> ELSE <<>>)
        \o (IF r[2] > e THEN <<[raw |-> Bytes(e, r[2])]>> ELSE <<>>)

IsRaw(it) == "raw" \in DOMAIN it

\* items of a whole Vec<u8>, the ragged bytes of adjacent runs joined
RECURSIVE JoinItems(_, _)
JoinItems(acc, rest) ==
    IF rest = <<>> THEN acc
    ELSE IF acc = <<>> THEN JoinItems(<<Head(rest)>>, Tail(rest))
    ELSE LET a == acc[Len(acc)]
             b == Head(rest)
         IN  IF IsRaw(a) /\ IsRaw(b)
             THEN JoinItems([acc EXCEPT ![Len(acc)] = [raw |-> a.raw \o b.raw]],
                            Tail(rest))
             ELSE IF ~IsRaw(a) /\ ~IsRaw(b) /\ (a.ph + a.n) % Len(stream) = b.ph
             THEN JoinItems([acc EXCEPT ![Len(acc)] = [ph |-> a.ph, n |-> a.n + b.n]],
                            Tail(rest))
             ELSE JoinItems(Append(acc, b), Tail(rest))

RECURSIVE VecItems(_)
VecItems(v) ==
    IF v = <<>> THEN <<>> ELSE JoinItems(RunItems(Head(v)), VecItems(Tail(v)))

\* String::from_utf8_lossy(&buffer).to_string().  A String is a sequence of
\* pieces: [cps |-> code points] for decoded ragged bytes and
\* [ph |-> .., n |-> ..] for the characters of n stream bytes from phase ph.
Utf8Lossy(v) ==
    LET items == VecItems(v)
    IN  [i \in 1..Len(items) |->
            IF IsRaw(items[i]) THEN [cps |-> Utf8LossyBytes(items[i].raw)]
            ELSE items[i]]

EmptyString == <<>>

(***************************************************************************)
(* LocalShell: the code of the two threads                                 *)
(***************************************************************************)
\* variant: the cache is refreshed before the eviction
ReaderCodeStoreEarly ==
    << <<"lock", "buffer">>, <<"extend">>, <<"lock", "cache">>, <<"store">>,
       <<"evict">>, <<"unlock", "cache">>, <<"unlock", "buffer">> >>

\* variant: the cache guard is not dropped before the next read
ReaderCodeKeepCache ==
    << <<"lock", "buffer">>, <<"extend">>, <<"evict">>, <<"lock", "cache">>,
       <<"store">>, <<"unlock", "buffer">> >>

\* shell.rs:58-68, the reader's append step after a read of n > 0 bytes
ReaderCode ==
    << <<"lock", "buffer">>,     \* 58  if let Ok(mut buffer) = buffer_clone.lock()
       <<"extend">>,             \* 59  buffer.extend_from_slice(&buf[..n])
       <<"evict">>,              \* 61  if buffer.len() > 100_000 { drain(..50_000) }
       <<"lock", "cache">>,      \* 65  if let Ok(mut cache) = cache_clone.lock()
       <<"store">>,              \* 66  *cache = from_utf8_lossy(&buffer).to_string()
       <<"unlock", "cache">>,    \* 67  } cache guard dropped
       <<"unlock", "buffer">> >> \* 68  } buffer guard dropped

\* variant: the cache is locked first and kept while the buffer is cleared
ClearOutputCodeNested ==
    << <<"lock", "cache">>, <<"lock", "buffer">>, <<"clear_buffer">>,
       <<"unlock", "buffer">>, <<"clear_cache">>, <<"unlock", "cache">> >>

\* variant: only the buffer is cleared, as RemoteShell::clear_output does
ClearOutputCodeBufferOnly ==
    << <<"lock", "buffer">>, <<"clear_buffer">>, <<"unlock", "buffer">> >>

\* variant: the buffer guard is kept until the cache is cleared
ClearOutputCodeHoldBuffer ==
    << <<"lock", "buffer">>, <<"clear_buffer">>, <<"lock", "cache">>,
       <<"clear_cache">>, <<"unlock", "cache">>, <<"unlock", "buffer">> >>

\* variant: the cache is cleared before the buffer
ClearOutputCodeCacheFirst ==
    << <<"lock", "cache">>, <<"clear_cache">>, <<"unlock", "cache">>,
       <<"lock", "buffer">>, <<"clear_buffer">>, <<"unlock", "buffer">> >>

\* shell.rs:90-97
ClearOutputCode ==
    << <<"lock", "buffer">>,     \* 91  if let Ok(mut buffer) = self.output_buffer.lock()
       <<"clear_buffer">>,       \* 92  buffer.clear()
       <<"unlock", "buffer">>,   \* 93  }
       <<"lock", "cache">>,      \* 94  if let Ok(mut cache) = self.cached_output.lock()
       <<"clear_cache">>,        \* 95  cache.clear()
       <<"unlock", "cache">> >>  \* 96  }

\* shell.rs:99-105
GetOutputCode ==
    << <<"lock", "cache">>,      \* 100 if let Ok(cache) = self.cached_output.lock()
       <<"clone">>,              \* 101 cache.clone()
       <<"unlock", "cache">> >>  \* 102 } guard dropped

UiCode ==
    IF uiOp = "get_output" THEN GetOutputCode
    ELSE IF uiOp = "clear_output" THEN ClearOutputCode
    ELSE <<>>

ReaderInstr ==
    IF readerPc \in 1..Len(ReaderCode) THEN ReaderCode[readerPc] ELSE <<"read">>

UiInstr ==
    IF uiPc \in 1..Len(UiCode) THEN UiCode[uiPc]
    ELSE IF uiOp = "idle" THEN <<"idle">> ELSE <<"return">>

\* the reader loops: after the last instruction of the append it reads again
ReaderNextPc(p) == IF p >= Len(ReaderCode) THEN 0 ELSE p + 1

\* `if let Ok(guard) = m.lock() { .. }`: when lock() fails the block is
\* skipped; the block ends where the guard is dropped
AfterBlock(code, p) ==
    LET ends == {j \in (p + 1)..Len(code) : code[j] = <<"unlock", code[p][2]>>}
    IN  IF ends = {} THEN Len(code) + 1
        ELSE (CHOOSE j \in ends : \A k \in ends : j <= k) + 1

Locks == {"buffer", "cache"}

HeldBy(t) == {l \in Locks : lock[l] = t}

(***************************************************************************)
(* LocalShell::new: the state after construction                           *)
(***************************************************************************)
\* shell.rs:47-48 and the thread spawned at shell.rs:53
InitLocalOn(S, limit) ==
    /\ stream \in S
    /\ arrived = 0
    /\ reads = 0
    /\ readLimit = limit
    /\ lastRead = "none"
    /\ buf = <<0, 0>>
    /\ output_buffer = <<>>
    /\ cached_output = EmptyString
    /\ lock = [l \in Locks |-> "free"]
    /\ poisoned = [l \in Locks |-> FALSE]
    /\ readerPc = 0
    /\ readerState = "running"
    /\ uiOp = "idle"
    /\ uiPc = 0
    /\ returned = NoValue
    /\ clears = 0
    /\ lastAppend = <<>>
    /\ prevAppend = <<>>
    /\ appendedTo = 0
    /\ clearedAt = 0
    /\ appendSinceClear = FALSE
    /\ cachedFrom = <<>>

\* a local session whose shell writes one of Streams
InitLocal(limit) == InitLocalOn(Streams, limit)

uiVars == <<uiOp, uiPc, returned, clears>>
readerVars == <<arrived, reads, readLimit, lastRead, buf, readerPc, readerState>>
historyVars == <<lastAppend, prevAppend, appendedTo, clearedAt, appendSinceClear,
                 cachedFrom>>

(***************************************************************************)
(* The reader thread, shell.rs:53-74                                       *)
(***************************************************************************)
\* variant: a failed read is retried
MatchArmRetry(result) ==
    IF result = "data" THEN "append"
    ELSE IF result = "eof" THEN "break"
    ELSE "continue"

\* 56-72  the arms of `match reader.read(&mut buf)`
MatchArm(result) ==
    IF result = "data" THEN "append"      \* 57  Ok(n) if n > 0 => { .. }
    ELSE IF result = "eof" THEN "break"   \* 70  Ok(_) => break
    ELSE "break"                          \* 71  Err(_) => break

\* the reader's position and state after a read with the given result
AfterRead(result) ==
    /\ lastRead' = result
    /\ readerPc' = IF MatchArm(result) = "append" THEN 1 ELSE 0
    /\ readerState' = IF MatchArm(result) = "break" THEN "exited" ELSE "running"

\* 56-57  reader.read(&mut buf) returns Ok(n), n > 0
ReaderRead(n) ==
    /\ readerState = "running"
    /\ ReaderInstr = <<"read">>
    /\ reads < readLimit
    /\ buf' = <<arrived, arrived + n>>
    /\ arrived' = arrived + n
    /\ reads' = reads + 1
    /\ AfterRead("data")
    /\ UNCHANGED otherThanLocal
    /\ UNCHANGED <<stream, readLimit, output_buffer, cached_output, lock,
                   poisoned, uiVars, historyVars>>

\* 70  the read returned 0 bytes: end of stream
ReaderReadEof ==
    /\ readerState = "running"
    /\ ReaderInstr = <<"read">>
    /\ AfterRead("eof")
    /\ UNCHANGED otherThanLocal
    /\ UNCHANGED <<stream, arrived, reads, readLimit, buf, output_buffer,
                   cached_output, lock, poisoned, uiVars, historyVars>>

\* 71  the read failed
ReaderReadError ==
    /\ readerState = "running"
    /\ ReaderInstr = <<"read">>
    /\ AfterRead("error")
    /\ UNCHANGED otherThanLocal
    /\ UNCHANGED <<stream, arrived, reads, readLimit, buf, output_buffer,
                   cached_output, lock, poisoned, uiVars, historyVars>>

\* 58, 65  if let Ok(guard) = m.lock(): blocks while the mutex is held; a
\* poisoned mutex is acquired too, but lock() gives Err, the block is
\* skipped and the guard inside the error is dropped
ReaderLock(l) ==
    /\ ReaderInstr = <<"lock", l>>
    /\ lock[l] = "free"
    /\ IF poisoned[l]
       THEN /\ readerPc' = ReaderNextPc(AfterBlock(ReaderCode, readerPc) - 1)
            /\ UNCHANGED lock
       ELSE /\ lock' = [lock EXCEPT ![l] = "reader"]
            /\ readerPc' = ReaderNextPc(readerPc)
    /\ UNCHANGED otherThanLocal
    /\ UNCHANGED <<stream, arrived, reads, readLimit, lastRead, buf,
                   output_buffer, cached_output, poisoned, readerState, uiVars,
                   historyVars>>

\* 67, 68  the guard goes out of scope
ReaderUnlock(l) ==
    /\ ReaderInstr = <<"unlock", l>>
    /\ lock' = [lock EXCEPT ![l] = "free"]
    /\ readerPc' = ReaderNextPc(readerPc)
    /\ UNCHANGED otherThanLocal
    /\ UNCHANGED <<stream, arrived, reads, readLimit, lastRead, buf,
                   output_buffer, cached_output, poisoned, readerState, uiVars,
                   historyVars>>

\* 59  buffer.extend_from_slice(&buf[..n])
ReaderExtend ==
    /\ ReaderInstr = <<"extend">>
    /\ output_buffer' = ExtendFromSlice(output_buffer, buf)
    /\ readerPc' = ReaderNextPc(readerPc)
    /\ appendedTo' = buf[2]
    /\ appendSinceClear' = TRUE
    /\ UNCHANGED otherThanLocal
    /\ UNCHANGED <<stream, arrived, reads, readLimit, lastRead, buf,
                   cached_output, lock, poisoned, readerState, uiVars,
                   lastAppend, prevAppend, clearedAt, cachedFrom>>

\* variant: drains a tenth of what the code drains
EvictTooFew(v) ==
    IF VecLen(v) > BUFFER_CAP THEN Drain(v, DRAIN_LEN \div 10) ELSE v

\* 61-63  if buffer.len() > 100_000 { buffer.drain(..50_000); }
Evict(v) ==
    IF VecLen(v) > BUFFER_CAP THEN Drain(v, DRAIN_LEN) ELSE v

\* the last change the append makes to the buffer
ReaderEvict ==
    /\ ReaderInstr = <<"evict">>
    /\ output_buffer' = Evict(output_buffer)
    /\ readerPc' = ReaderNextPc(readerPc)
    /\ lastAppend' = output_buffer'
    /\ prevAppend' = lastAppend
    /\ appendSinceClear' = TRUE
    /\ UNCHANGED otherThanLocal
    /\ UNCHANGED <<stream, arrived, reads, readLimit, lastRead, buf,
                   cached_output, lock, poisoned, readerState, uiVars,
                   appendedTo, clearedAt, cachedFrom>>

\* 66  *cache = String::from_utf8_lossy(&buffer).to_string()
ReaderStore ==
    /\ ReaderInstr = <<"store">>
    /\ cached_output' = Utf8Lossy(output_buffer)
    /\ cachedFrom' = output_buffer
    /\ readerPc' = ReaderNextPc(readerPc)
    /\ appendSinceClear' = TRUE
    /\ UNCHANGED otherThanLocal
    /\ UNCHANGED <<stream, arrived, reads, readLimit, lastRead, buf,
                   output_buffer, lock, poisoned, readerState, uiVars,
                   lastAppend, prevAppend, appendedTo, clearedAt>>

\* 59-66  the reader thread panics inside its critical section: unwinding
\* drops its guards, which poisons the mutexes they held, and ends the thread
ReaderPanic ==
    /\ readerState = "running"
    /\ ReaderInstr \in {<<"extend">>, <<"evict">>, <<"store">>}
    /\ poisoned' = [l \in Locks |-> poisoned[l] \/ lock[l] = "reader"]
    /\ lock' = [l \in Locks |-> IF lock[l] = "reader" THEN "free" ELSE lock[l]]
    /\ readerState' = "panicked"
    /\ readerPc' = 0
    /\ UNCHANGED otherThanLocal
    /\ UNCHANGED <<stream, arrived, reads, readLimit, lastRead, buf,
                   output_buffer, cached_output, uiVars, historyVars>>

Reader ==
    \/ \E n \in ReadSizes : ReaderRead(n)
    \/ ReaderReadEof
    \/ ReaderReadError
    \/ \E l \in Locks : ReaderLock(l)
    \/ \E l \in Locks : ReaderUnlock(l)
    \/ ReaderExtend
    \/ ReaderEvict
    \/ ReaderStore

(***************************************************************************)
(* The UI thread: LocalShell::get_output and LocalShell::clear_output      *)
(***************************************************************************)
\* the render tick calls get_output (ui/terminal.rs:26)
CallGetOutput ==
    /\ uiOp = "idle"
    /\ uiOp' = "get_output"
    /\ uiPc' = 1
    /\ UNCHANGED otherThanLocal
    /\ UNCHANGED <<stream, readerVars, output_buffer, cached_output, lock,
                   poisoned, returned, clears, historyVars>>

\* app.rs:189 calls clear_output
CallClearOutput ==
    /\ uiOp = "idle"
    /\ clears < MaxClears
    /\ uiOp' = "clear_output"
    /\ uiPc' = 1
    /\ clears' = clears + 1
    /\ appendSinceClear' = FALSE
    /\ UNCHANGED otherThanLocal
    /\ UNCHANGED <<stream, readerVars, output_buffer, cached_output, lock,
                   poisoned, returned, lastAppend, prevAppend, appendedTo,
                   clearedAt, cachedFrom>>

\* variant: the else branch of get_output hands out the cache as it is
GetOutputElseStale == cached_output

\* shell.rs:102-104  the else branch of get_output
GetOutputElse == EmptyString

\* 91, 94, 100  if let Ok(guard) = m.lock(); get_output's else branch
\* (shell.rs:103) returns String::new()
UiLock(l) ==
    /\ UiInstr = <<"lock", l>>
    /\ lock[l] = "free"
    /\ IF poisoned[l]
       THEN /\ uiPc' = AfterBlock(UiCode, uiPc)
            /\ returned' = IF uiOp = "get_output" THEN Some(GetOutputElse) ELSE returned
            /\ UNCHANGED lock
       ELSE /\ lock' = [lock EXCEPT ![l] = "ui"]
            /\ uiPc' = uiPc + 1
            /\ UNCHANGED returned
    /\ UNCHANGED otherThanLocal
    /\ UNCHANGED <<stream, readerVars, output_buffer, cached_output, poisoned,
                   uiOp, clears, historyVars>>

\* 93, 96, 102  the guard goes out of scope
UiUnlock(l) ==
    /\ UiInstr = <<"unlock", l>>
    /\ lock' = [lock EXCEPT ![l] = "free"]
    /\ uiPc' = uiPc + 1
    /\ UNCHANGED otherThanLocal
    /\ UNCHANGED <<stream, readerVars, output_buffer, cached_output, poisoned,
                   uiOp, returned, clears, historyVars>>

\* 101  cache.clone()
UiClone ==
    /\ UiInstr = <<"clone">>
    /\ returned' = Some(cached_output)
    /\ uiPc' = uiPc + 1
    /\ UNCHANGED otherThanLocal
    /\ UNCHANGED <<stream, readerVars, output_buffer, cached_output, lock,
                   poisoned, uiOp, clears, historyVars>>

\* 92  buffer.clear()
UiClearBuffer ==
    /\ UiInstr = <<"clear_buffer">>
    /\ output_buffer' = <<>>
    /\ clearedAt' = appendedTo
    /\ uiPc' = uiPc + 1
    /\ UNCHANGED otherThanLocal
    /\ UNCHANGED <<stream, readerVars, cached_output, lock, poisoned, uiOp,
                   returned, clears, lastAppend, prevAppend, appendedTo,
                   appendSinceClear, cachedFrom>>

\* 95  cache.clear()
UiClearCache ==
    /\ UiInstr = <<"clear_cache">>
    /\ cached_output' = EmptyString
    /\ cachedFrom' = <<>>
    /\ uiPc' = uiPc + 1
    /\ UNCHANGED otherThanLocal
    /\ UNCHANGED <<stream, readerVars, output_buffer, lock, poisoned, uiOp,
                   returned, clears, lastAppend, prevAppend, appendedTo,
                   clearedAt, appendSinceClear>>

\* the call returns; the caller consumes get_output's String
UiReturn ==
    /\ UiInstr = <<"return">>
    /\ uiOp' = "idle"
    /\ uiPc' = 0
    /\ returned' = NoValue
    /\ UNCHANGED otherThanLocal
    /\ UNCHANGED <<stream, readerVars, output_buffer, cached_output, lock,
                   poisoned, clears, historyVars>>

Ui ==
    \/ CallGetOutput
    \/ CallClearOutput
    \/ \E l \in Locks : UiLock(l)
    \/ \E l \in Locks : UiUnlock(l)
    \/ UiClone
    \/ UiClearBuffer
    \/ UiClearCache
    \/ UiReturn

(***************************************************************************)
(* RemoteShell, shell.rs:118-167                                           *)
(***************************************************************************)
\* shell.rs:119-134  RemoteShell::new: pty requested, shell started, empty
\* buffer, no reader thread
InitRemote ==
    /\ remote_buffer = <<>>
    /\ channelOpen = TRUE
    /\ channelInput = 0
    /\ channelOutput = 0
    /\ ptySize = <<0, 0>>
    /\ remoteCalls = 0
    /\ remoteResult = <<"none", "none">>
    /\ remoteReturned = NoValue

\* a call on the remote session is made
RemoteCall ==
    /\ remoteCalls < MaxRemoteCalls
    /\ remoteCalls' = remoteCalls + 1
    /\ UNCHANGED otherThanRemote

\* shell.rs:136-140  write_all and flush on the channel; `?` returns the error
RemoteWriteInput(data) ==
    /\ RemoteCall
    /\ IF channelOpen
       THEN /\ channelInput' = channelInput + Len(data)
            /\ remoteResult' = <<"write_input", "ok">>
       ELSE /\ channelInput' = channelInput
            /\ remoteResult' = <<"write_input", "err">>
    /\ UNCHANGED <<remote_buffer, channelOpen, channelOutput, ptySize, remoteReturned>>

\* variant: read_available moves what waits on the channel into the buffer
ReadAvailableReading(buffer, waiting) ==
    ExtendFromSlice(buffer, <<0, waiting>>)

\* shell.rs:142-147  the buffer after read_available: the body is Ok(())
ReadAvailable(buffer, waiting) ==
    buffer

RemoteReadAvailable ==
    /\ RemoteCall
    /\ remote_buffer' = ReadAvailable(remote_buffer, channelOutput)
    /\ remoteResult' = <<"read_available", "ok">>
    /\ UNCHANGED <<channelOpen, channelInput, channelOutput, ptySize, remoteReturned>>

\* shell.rs:149-153
RemoteClearOutput ==
    /\ RemoteCall
    /\ remote_buffer' = <<>>
    /\ remoteResult' = <<"clear_output", "ok">>
    /\ UNCHANGED <<channelOpen, channelInput, channelOutput, ptySize, remoteReturned>>

\* shell.rs:155-161  the mutex has one user and is never poisoned
RemoteGetOutput ==
    /\ RemoteCall
    /\ remoteReturned' = Some(Utf8Lossy(remote_buffer))
    /\ remoteResult' = <<"get_output", "ok">>
    /\ UNCHANGED <<remote_buffer, channelOpen, channelInput, channelOutput, ptySize>>

\* ui/terminal.rs:21-27  draw_terminal: read_available, result discarded,
\* then get_output
RemoteDraw ==
    /\ RemoteCall
    /\ remote_buffer' = ReadAvailable(remote_buffer, channelOutput)
    /\ remoteReturned' = Some(Utf8Lossy(remote_buffer'))
    /\ remoteResult' = <<"draw_terminal", "ok">>
    /\ UNCHANGED <<channelOpen, channelInput, channelOutput, ptySize>>

\* shell.rs:163-166
RemoteResize(size) ==
    /\ RemoteCall
    /\ IF channelOpen
       THEN /\ ptySize' = size
            /\ remoteResult' = <<"resize", "ok">>
       ELSE /\ ptySize' = ptySize
            /\ remoteResult' = <<"resize", "err">>
    /\ UNCHANGED <<remote_buffer, channelOpen, channelInput, channelOutput, remoteReturned>>

\* the remote shell sends output: it waits on the channel
RemoteShellOutput(n) ==
    /\ channelOpen
    /\ channelOutput + n <= MaxRemoteOutput * BUFFER_SIZE
    /\ channelOutput' = channelOutput + n
    /\ UNCHANGED <<remote_buffer, channelOpen, channelInput, ptySize,
                   remoteCalls, remoteResult, remoteReturned>>
    /\ UNCHANGED otherThanRemote

\* the remote side closes the channel
RemoteChannelClose ==
    /\ channelOpen
    /\ channelOpen' = FALSE
    /\ UNCHANGED <<remote_buffer, channelInput, channelOutput, ptySize,
                   remoteCalls, remoteResult, remoteReturned>>
    /\ UNCHANGED otherThanRemote

Remote ==
    \/ \E data \in InputData : RemoteWriteInput(data)
    \/ RemoteReadAvailable
    \/ RemoteClearOutput
    \/ RemoteGetOutput
    \/ RemoteDraw
    \/ \E size \in PtySizes : RemoteResize(size)
    \/ \E n \in ReadSizes : RemoteShellOutput(n)
    \/ RemoteChannelClose

(***************************************************************************)
(* App (app.rs) and run_app (main.rs)                                      *)
(***************************************************************************)
Sides == {"Left", "Right"}

\* a crossterm KeyCode: Char(c) carries the character's code, F(n) its number
Key(code, n) == [code |-> code, n |-> n]

\* the characters the loop distinguishes, and one it does not ("x")
Chars == {121, 89, 110, 78, 113, 104, 101, 99, 109, 100, 116, 120}

Keys ==
    {Key("Char", c) : c \in Chars}
    \cup {Key("F", n) : n \in {1, 2, 4, 5, 6, 7, 8, 9, 10}}
    \cup {Key(k, 0) : k \in {"Tab", "Esc", "Enter", "Backspace", "Up", "Down",
                            "Left", "Right", "Home", "End", "PageUp",
                            "PageDown", "Delete"}}

\* the keys pressed in the behaviours that also call the terminal pane:
\* t, x, c, y, Tab, Esc, Enter, Up
PaneKeys ==
    {Key("Char", c) : c \in {116, 120, 99, 121}}
    \cup {Key(k, 0) : k \in {"Tab", "Esc", "Enter", "Up"}}

\* the keys pressed in the behaviours that follow the panels: c, y, t, Tab,
\* Esc, Enter, Backspace and the six selection keys
NavKeys ==
    {Key("Char", c) : c \in {99, 121, 116}}
    \cup {Key(k, 0) : k \in {"Tab", "Esc", "Enter", "Backspace", "Up", "Down",
                            "Home", "End", "PageUp", "PageDown"}}

\* lengths of the directory listings in those behaviours
ListingLengths == {2, 5}

\* heights the terminal leaves for a panel's listing in those behaviours
PanelRows == {2, 20}

IsChar(key, c) == key.code = "Char" /\ key.n = c
IsF(key, n) == key.code = "F" /\ key.n = n

(***************************************************************************)
(* FilePanel (file_panel.rs) and the selection functions of App            *)
(*                                                                         *)
(* A panel is a record of the number of its entries, selected_index,       *)
(* scroll_offset and visible_rows.                                         *)
(***************************************************************************)
\* a.saturating_sub(b)
SubOrZero(a, b) == IF a > b THEN a - b ELSE 0

\* a.min(b)
Smaller(a, b) == IF a <= b THEN a ELSE b

\* file_panel.rs:17-28  FilePanel::new over a listing of n entries
NewPanel(n) ==
    [entries |-> n, selected_index |-> 0, scroll_offset |-> 0, visible_rows |-> 20]

\* file_panel.rs:52-59  adjust_scroll
AdjustScroll(p) ==
    IF p.selected_index < p.scroll_offset
    THEN [p EXCEPT !.scroll_offset = p.selected_index]
    ELSE IF p.selected_index >= p.scroll_offset + p.visible_rows
    THEN [p EXCEPT !.scroll_offset = p.selected_index - p.visible_rows + 1]
    ELSE p

\* variant: refresh also brings the selection back into the window
RefreshAdjusting(p, n) ==
    AdjustScroll([p EXCEPT !.entries = n,
                           !.selected_index = IF @ >= n THEN SubOrZero(n, 1) ELSE @])

\* file_panel.rs:30-36  refresh, the directory now listing n entries
Refresh(p, n) ==
    [p EXCEPT !.entries = n,
              !.selected_index = IF @ >= n THEN SubOrZero(n, 1) ELSE @]

\* file_panel.rs:38-46  change_directory to a directory of n entries
ChangeDirectory(p, n) ==
    [p EXCEPT !.entries = n, !.selected_index = 0, !.scroll_offset = 0]

\* app.rs:108-114
MoveSelectionUp(p) ==
    IF p.selected_index > 0
    THEN AdjustScroll([p EXCEPT !.selected_index = @ - 1])
    ELSE p

\* app.rs:116-122
MoveSelectionDown(p) ==
    IF p.selected_index < SubOrZero(p.entries, 1)
    THEN AdjustScroll([p EXCEPT !.selected_index = @ + 1])
    ELSE p

\* app.rs:124-128
MoveToFirst(p) == [p EXCEPT !.selected_index = 0, !.scroll_offset = 0]

\* app.rs:130-134
MoveToLast(p) == AdjustScroll([p EXCEPT !.selected_index = SubOrZero(p.entries, 1)])

\* app.rs:136-141
PageUp(p) ==
    AdjustScroll([p EXCEPT !.selected_index =
                     SubOrZero(@, SubOrZero(p.visible_rows, 1))])

\* app.rs:143-148
PageDown(p) ==
    AdjustScroll([p EXCEPT !.selected_index =
                     Smaller(@ + SubOrZero(p.visible_rows, 1),
                             SubOrZero(p.entries, 1))])

\* what a navigation key does to the active panel (main.rs:162-169);
\* Enter and Backspace are the two callers of change_directory
SelectionKey(key, p) ==
    IF key.code = "Up" THEN MoveSelectionUp(p)
    ELSE IF key.code = "Down" THEN MoveSelectionDown(p)
    ELSE IF key.code = "Home" THEN MoveToFirst(p)
    ELSE IF key.code = "End" THEN MoveToLast(p)
    ELSE IF key.code = "PageUp" THEN PageUp(p)
    ELSE IF key.code = "PageDown" THEN PageDown(p)
    ELSE p

\* app.rs:321-325  set_visible_rows, called by ui::draw (ui.rs:32-33) at the
\* top of every iteration of the loop (main.rs:100)
SetVisibleRows(ps, rows) == [sd \in Sides |-> [ps[sd] EXCEPT !.visible_rows = rows]]

\* the panels as the draw that precedes a key press leaves them
Drawn == SetVisibleRows(panels, termRows)

\* the panels after refresh() of the sides in `done`
Refreshed(ps, done) ==
    { [sd \in Sides |-> IF sd \in done THEN Refresh(ps[sd], f[sd]) ELSE ps[sd]] :
        f \in [Sides -> listings] }

Other(sd) == IF sd = "Left" THEN "Right" ELSE "Left"

\* app.rs:39-78  App::new: a shell that fails to spawn is absent (`.ok()`);
\* the panels list directories of the lengths in L, the terminal leaves one
\* of the heights R to a panel
InitAppOn(limit, L, R) ==
    /\ listings = L
    /\ termRows \in R
    /\ panels \in [Sides -> {NewPanel(n) : n \in L}]
    /\ keyLimit = limit
    /\ paneCalls = 0
    /\ lastPaneCall = <<"none", "Left">>
    /\ terminalText = NoValue
    /\ shellClears = [sd \in Sides |-> 0]
    /\ active_panel = "Left"
    /\ remote_connection \in BOOLEAN
    /\ show_help = FALSE
    /\ show_terminal = FALSE
    /\ terminal_input_mode = FALSE
    /\ confirmation_dialog = NoValue
    /\ status_message = NoValue
    /\ shells \in [Sides -> {"None", "Local", "Remote"}]
    /\ shells["Left"] \in {"None", "Local"}
    /\ shells["Right"] \in (IF remote_connection THEN {"None", "Remote"}
                                                ELSE {"None", "Local"})
    /\ shellUp = [sd \in Sides |-> shells[sd] # "None"]
    /\ shellInput = [sd \in Sides |-> 0]
    /\ loopState = "running"
    /\ keys = 0
    /\ lastKey = Key("None", 0)
    /\ transferCalls = <<>>
    /\ writeCalls = 0
    /\ failedWrites = 0
    /\ lastWrite = "none"

\* an App over directories that hold one entry, in a terminal that leaves
\* 20 rows to a panel
InitApp(limit) == InitAppOn(limit, {1}, {20})

\* the state of the specifications that have no App
IdleApp ==
    /\ InitApp(0)
    /\ ~remote_connection
    /\ shells = [sd \in Sides |-> "None"]

\* main.rs:104-105  a key press is read from the event queue
KeyPress(key) ==
    /\ loopState = "running"
    /\ keys < keyLimit
    /\ keys' = keys + 1
    /\ lastKey' = key
    /\ UNCHANGED <<keyLimit, paneVars, listings, termRows>>
    /\ UNCHANGED otherThanApp

NoWrite == UNCHANGED <<shellInput, writeCalls, failedWrites, lastWrite>>

\* shell.rs:84-88, 136-140  write_input: write_all and flush; Err when the
\* child has exited or the channel is closed
WriteInput(sd, data) ==
    /\ writeCalls' = writeCalls + 1
    /\ IF shellUp[sd]
       THEN /\ shellInput' = [shellInput EXCEPT ![sd] = @ + Len(data)]
            /\ lastWrite' = "ok"
            /\ UNCHANGED failedWrites
       ELSE /\ lastWrite' = "err"
            /\ failedWrites' = failedWrites + 1
            /\ UNCHANGED shellInput

\* the value send_to_shell returns (app.rs:204-214)
SendResult(sd) ==
    IF shells[sd] = "None" THEN "ok"
    ELSE IF shellUp[sd] THEN "ok" ELSE "err"

\* variant: send_to_shell writes to the other panel's shell
SendTargetOther == Other(active_panel)

\* app.rs:205-208  the shell send_to_shell writes to
SendTarget == active_panel

\* app.rs:204-214  send_to_shell: the active panel's shell, if there is one
SendToShell(data) ==
    IF shells[SendTarget] # "None"
    THEN WriteInput(SendTarget, data)
    ELSE NoWrite

\* variant: the error of send_to_shell is propagated with `?`
PropagateSendResult(result) ==
    IF result = "err" THEN "failed" ELSE "running"

\* main.rs:125-143  `let _ = app.send_to_shell(..)`: the loop's state after
\* the call, whatever it returned
DiscardSendResult(result) ==
    "running"

\* main.rs:124-143  the bytes sent for a key in terminal input mode
SendData(key) ==
    IF key.code = "Char" THEN <<key.n>>
    ELSE IF key.code = "Enter" THEN <<10>>
    ELSE IF key.code = "Backspace" THEN <<127>>
    ELSE IF key.code = "Up" THEN <<27, 91, 65>>
    ELSE IF key.code = "Down" THEN <<27, 91, 66>>
    ELSE IF key.code = "Left" THEN <<27, 91, 68>>
    ELSE IF key.code = "Right" THEN <<27, 91, 67>>
    ELSE <<>>

SentKeys == {k \in Keys : SendData(k) # <<>>}

\* app.rs:437-440
CancelConfirmation ==
    /\ confirmation_dialog' = NoValue
    /\ status_message' = Some(<<"Cancelled">>)

\* variant: the source is deleted whatever the copy returned
MoveCallsDeleteAnyway(copyOk) == <<"copy_file", "delete_file">>

\* app.rs:361-376, 403-405  the calls a confirmed Move makes into transfer:
\* delete_file is inside the Ok arm of the copy's result
MoveCalls(copyOk) ==
    IF copyOk THEN <<"copy_file", "delete_file">> ELSE <<"copy_file">>

\* app.rs:346-352, 385-398, 423-425  the panels confirm_action refreshes, in
\* the order of the calls
RefreshCalls(action, copyOk, deleteOk) ==
    IF action = "Copy" THEN (IF copyOk THEN <<Other(active_panel)>> ELSE <<>>)
    ELSE IF action = "Move"
    THEN (IF ~copyOk THEN <<>>
          ELSE IF deleteOk THEN <<"Left", "Right">>
          ELSE <<Other(active_panel)>>)
    ELSE (IF deleteOk THEN <<active_panel>> ELSE <<>>)

\* app.rs:327-435  confirm_action: take() the dialog, run the transfer;
\* refresh()? propagates its error, the refreshes before it are done
ConfirmAction(copyOk, deleteOk, refreshOk) ==
    LET action == confirmation_dialog[1][1]
        calls == RefreshCalls(action, copyOk, deleteOk)
    IN  /\ confirmation_dialog' = NoValue
        /\ \E k \in 0..Len(calls) :
              /\ refreshOk \/ calls = <<>> => k = Len(calls)
              /\ (~refreshOk /\ calls # <<>>) => k < Len(calls)
              /\ panels' \in Refreshed(Drawn, {calls[i] : i \in 1..k})
        /\ IF action = "Copy"
           THEN /\ transferCalls' = <<"copy_file">>
                /\ status_message' = Some(<<IF copyOk THEN "Copied" ELSE "Copy failed">>)
                /\ loopState' = IF copyOk /\ ~refreshOk THEN "failed" ELSE "running"
           ELSE IF action = "Move"
           THEN /\ transferCalls' = MoveCalls(copyOk)
                /\ status_message' =
                      Some(<<IF ~copyOk THEN "Move failed"
                             ELSE IF deleteOk THEN "Moved"
                             ELSE "Copied but failed to delete source">>)
                /\ loopState' = IF copyOk /\ ~refreshOk THEN "failed" ELSE "running"
           ELSE /\ transferCalls' =
                      IF confirmation_dialog[1][2] = "dir"
                      THEN <<"delete_directory">> ELSE <<"delete_file">>
                /\ status_message' = Some(<<IF deleteOk THEN "Deleted" ELSE "Delete failed">>)
                /\ loopState' = IF deleteOk /\ ~refreshOk THEN "failed" ELSE "running"

\* main.rs:107-116  a confirmation dialog is open
KeyInDialog(key) ==
    /\ confirmation_dialog # NoValue
    /\ KeyPress(key)
    /\ IF IsChar(key, 121) \/ IsChar(key, 89)
       THEN \E copyOk \in BOOLEAN, deleteOk \in BOOLEAN, refreshOk \in BOOLEAN :
                ConfirmAction(copyOk, deleteOk, refreshOk)
       ELSE IF IsChar(key, 110) \/ IsChar(key, 78) \/ key.code = "Esc"
       THEN /\ CancelConfirmation
            /\ panels' = Drawn
            /\ UNCHANGED <<loopState, transferCalls>>
       ELSE /\ panels' = Drawn
            /\ UNCHANGED <<confirmation_dialog, status_message, loopState,
                           transferCalls>>
    /\ NoWrite
    /\ UNCHANGED <<active_panel, remote_connection, show_help, show_terminal,
                   terminal_input_mode, shells, shellUp>>

\* main.rs:117-146  terminal input mode: Tab and Esc leave it
\* (app.rs:199-202), the keys of SendData go to the shell, the rest is ignored
KeyInTerminalInput(key) ==
    /\ confirmation_dialog = NoValue
    /\ show_terminal /\ terminal_input_mode
    /\ KeyPress(key)
    /\ IF key.code \in {"Tab", "Esc"}
       THEN /\ terminal_input_mode' = FALSE
            /\ status_message' =
                  Some(<<"Navigation mode (Tab=switch panel, Enter=terminal input)">>)
            /\ NoWrite
            /\ UNCHANGED loopState
       ELSE IF key \in SentKeys
       THEN /\ SendToShell(SendData(key))
            /\ loopState' = DiscardSendResult(SendResult(active_panel))
            /\ UNCHANGED <<terminal_input_mode, status_message>>
       ELSE /\ NoWrite
            /\ UNCHANGED <<terminal_input_mode, status_message, loopState>>
    /\ panels' = Drawn
    /\ UNCHANGED <<active_panel, remote_connection, show_help, show_terminal,
                   confirmation_dialog, shells, shellUp, transferCalls>>

\* the verb of an action in the status messages
Verb(action) ==
    IF action = "Copy" THEN "copy" ELSE IF action = "Move" THEN "move" ELSE "delete"

\* app.rs:226-319  copy_file, move_file, delete_file on the selected entry:
\* "none" (no entry), "parent" (".."), "dir" or "file"
RequestTransfer(action, selected) ==
    IF selected = "none"
    THEN /\ status_message' = Some(<<"No file selected">>)
         /\ UNCHANGED confirmation_dialog
    ELSE IF selected = "parent"
    THEN /\ status_message' =
               Some(<<"Cannot", Verb(action), "parent directory reference">>)
         /\ UNCHANGED confirmation_dialog
    ELSE IF selected = "dir" /\ action # "Delete"
    THEN /\ status_message' =
               Some(<<"Directory", Verb(action), "not yet implemented">>)
         /\ UNCHANGED confirmation_dialog
    ELSE /\ confirmation_dialog' = Some(<<action, selected>>)
         /\ UNCHANGED status_message

\* app.rs:150-167  enter_directory (Enter) and go_parent_directory
\* (Backspace): change_directory when there is a directory to go to and
\* listing it succeeds; a failed listing changes nothing and is the error
EnterOrParent(key, ok) ==
    LET p == Drawn[active_panel]
    IN  {Drawn} \cup
        (IF ok /\ (key.code = "Backspace" \/ p.selected_index < p.entries)
         THEN { [Drawn EXCEPT ![active_panel] = ChangeDirectory(p, n)] :
                  n \in listings }
         ELSE {})

\* main.rs:147-177  navigation mode
KeyInNavigation(key) ==
    /\ confirmation_dialog = NoValue
    /\ ~(show_terminal /\ terminal_input_mode)
    /\ KeyPress(key)
    /\ NoWrite
    /\ UNCHANGED <<remote_connection, shells, shellUp, transferCalls>>
    /\ IF key.code \in {"Enter", "Backspace"} /\ ~(key.code = "Enter" /\ show_terminal)
       THEN TRUE
       ELSE panels' = [Drawn EXCEPT ![active_panel] = SelectionKey(key, @)]
    /\ IF IsChar(key, 113) \/ IsF(key, 10)
       THEN /\ loopState' = "quit"
            /\ UNCHANGED <<active_panel, show_help, show_terminal,
                           terminal_input_mode, confirmation_dialog, status_message>>
       ELSE IF key.code = "Tab"
       THEN /\ active_panel' = IF active_panel = "Left" THEN "Right" ELSE "Left"
            /\ status_message' = Some(<<"Active:", active_panel', "panel">>)
            /\ UNCHANGED <<show_help, show_terminal, terminal_input_mode,
                           confirmation_dialog, loopState>>
       ELSE IF key.code = "Enter" /\ show_terminal
       THEN /\ terminal_input_mode' = TRUE
            /\ status_message' = Some(<<"Terminal input mode (Tab/Esc to exit)">>)
            /\ UNCHANGED <<active_panel, show_help, show_terminal,
                           confirmation_dialog, loopState>>
       ELSE IF key.code \in {"Up", "Down", "Home", "End", "PageUp", "PageDown"}
       THEN UNCHANGED <<active_panel, show_help, show_terminal, terminal_input_mode,
                        confirmation_dialog, status_message, loopState>>
       ELSE IF key.code \in {"Enter", "Backspace"}
       THEN /\ \E ok \in BOOLEAN :
                  /\ loopState' = IF ok THEN "running" ELSE "failed"
                  /\ panels' \in EnterOrParent(key, ok)
            /\ UNCHANGED <<active_panel, show_help, show_terminal,
                           terminal_input_mode, confirmation_dialog, status_message>>
       ELSE IF IsF(key, 1) \/ IsChar(key, 104)
       THEN /\ show_help' = ~show_help
            /\ UNCHANGED <<active_panel, show_terminal, terminal_input_mode,
                           confirmation_dialog, status_message, loopState>>
       ELSE IF IsF(key, 4) \/ IsChar(key, 101)
       THEN /\ status_message' = Some(<<"Edit: Not yet implemented">>)
            /\ UNCHANGED <<active_panel, show_help, show_terminal,
                           terminal_input_mode, confirmation_dialog, loopState>>
       ELSE IF IsF(key, 5) \/ IsChar(key, 99)
       THEN /\ \E selected \in {"none", "parent", "dir", "file"} :
                   RequestTransfer("Copy", selected)
            /\ UNCHANGED <<active_panel, show_help, show_terminal,
                           terminal_input_mode, loopState>>
       ELSE IF IsF(key, 6) \/ IsChar(key, 109)
       THEN /\ \E selected \in {"none", "parent", "dir", "file"} :
                   RequestTransfer("Move", selected)
            /\ UNCHANGED <<active_panel, show_help, show_terminal,
                           terminal_input_mode, loopState>>
       ELSE IF IsF(key, 7) \/ IsChar(key, 110)
       THEN /\ status_message' = Some(<<"MkDir: Not yet implemented (needs input dialog)">>)
            /\ UNCHANGED <<active_panel, show_help, show_terminal,
                           terminal_input_mode, confirmation_dialog, loopState>>
       ELSE IF IsF(key, 8) \/ IsChar(key, 100)
       THEN /\ \E selected \in {"none", "parent", "dir", "file"} :
                   RequestTransfer("Delete", selected)
            /\ UNCHANGED <<active_panel, show_help, show_terminal,
                           terminal_input_mode, loopState>>
       ELSE IF IsF(key, 9) \/ IsChar(key, 116)
       THEN /\ show_terminal' = ~show_terminal
            /\ status_message' = Some(<<"Terminal:", IF show_terminal' THEN "ON"
                                                                        ELSE "OFF">>)
            /\ UNCHANGED <<active_panel, show_help, terminal_input_mode,
                           confirmation_dialog, loopState>>
       ELSE UNCHANGED <<active_panel, show_help, show_terminal, terminal_input_mode,
                        confirmation_dialog, status_message, loopState>>

\* main.rs:100-104  terminal.draw, event::poll or event::read fails: `?`
EventLoopIoError ==
    /\ loopState = "running"
    /\ loopState' = "failed"
    /\ UNCHANGED <<appFields, shellUp, shellInput, keys, lastKey, transferCalls,
                   writeCalls, failedWrites, lastWrite, keyLimit, paneVars,
                   panelVars>>
    /\ UNCHANGED otherThanApp

\* main.rs:100-102  an iteration of the loop in which no key is read: the
\* draw calls set_visible_rows (ui.rs:32-33)
DrawFrame ==
    /\ loopState = "running"
    /\ panels # Drawn
    /\ panels' = Drawn
    /\ UNCHANGED <<appFields, shellUp, shellInput, loopState, keys, lastKey,
                   transferCalls, writeCalls, failedWrites, lastWrite, keyLimit,
                   paneVars, listings, termRows>>
    /\ UNCHANGED otherThanApp

\* the user resizes the terminal window
Resize(rows) ==
    /\ loopState = "running"
    /\ rows # termRows
    /\ termRows' = rows
    /\ UNCHANGED <<appFields, shellUp, shellInput, loopState, keys, lastKey,
                   transferCalls, writeCalls, failedWrites, lastWrite, keyLimit,
                   paneVars, panels, listings>>
    /\ UNCHANGED otherThanApp

\* the shell's child exits, or the remote side closes the channel
ShellExits(sd) ==
    /\ shellUp[sd]
    /\ shellUp' = [shellUp EXCEPT ![sd] = FALSE]
    /\ UNCHANGED <<appFields, shellInput, loopState, keys, lastKey, transferCalls,
                   writeCalls, failedWrites, lastWrite, keyLimit, paneVars,
                   panelVars>>
    /\ UNCHANGED otherThanApp

\* a call into the terminal pane while the loop runs
PaneCall(name) ==
    /\ loopState = "running"
    /\ paneCalls < MaxPaneCalls
    /\ paneCalls' = paneCalls + 1
    /\ lastPaneCall' = <<name, active_panel>>
    /\ UNCHANGED <<appFields, shellUp, shellInput, loopState, keys, lastKey,
                   transferCalls, writeCalls, failedWrites, lastWrite, keyLimit,
                   panelVars>>
    /\ UNCHANGED otherThanApp

\* variant: an absent shell gives an empty pane
ShellOutputEmpty(sd) ==
    IF shells[sd] # "None" THEN <<"get_output", sd>> ELSE <<"text", "">>

\* ui/terminal.rs:19-49  shell_output: the shell's get_output() (named here by
\* the side it is read from), or the fixed line when the side has no shell
ShellOutput(sd) ==
    IF shells[sd] # "None" THEN <<"get_output", sd>>
    ELSE <<"text", "Shell not available">>

\* ui/terminal.rs:12-80  draw_terminal
DrawTerminal ==
    /\ PaneCall("draw_terminal")
    /\ terminalText' = Some(ShellOutput(active_panel))
    /\ UNCHANGED shellClears

\* app.rs:182-191  clear_terminal_output
ClearTerminalOutput ==
    /\ PaneCall("clear_terminal_output")
    /\ shellClears' = IF shells[active_panel] # "None"
                      THEN [shellClears EXCEPT ![active_panel] = @ + 1]
                      ELSE shellClears
    /\ UNCHANGED terminalText

TerminalPane ==
    \/ DrawTerminal
    \/ ClearTerminalOutput

\* main.rs:105-178  one key press out of the keys K
KeyEvent(K) ==
    \/ \E key \in K : KeyInDialog(key)
    \/ \E key \in K : KeyInTerminalInput(key)
    \/ \E key \in K : KeyInNavigation(key)

EventLoop ==
    \/ KeyEvent(Keys)
    \/ EventLoopIoError
    \/ \E sd \in Sides : ShellExits(sd)

(***************************************************************************)
(* TerminalBuffer, ui/terminal.rs:82-408                                   *)
(*                                                                         *)
(* A char is its code point.  A Style is a record of the foreground, the   *)
(* background (<<>> for none) and the set of modifiers.  lines is kept as  *)
(* its length and the rows that hold at least one cell, indexed from 0.    *)
(***************************************************************************)
Color(name) == <<name>>

Indexed(n) == <<"Indexed", n>>

\* Style::default()
StyleDefault == [fg |-> <<>>, bg |-> <<>>, add_modifier |-> {}]

\* Style::default().fg(Color::White), ui/terminal.rs:105, 316, 346, 354
DefaultStyle == [StyleDefault EXCEPT !.fg = Color("White")]

Cell(ch, style) == [ch |-> ch, style |-> style]

\* char::is_ascii_digit
IsAsciiDigit(c) == c \in 48..57

\* char::is_control: the categories C0, DEL and C1
IsControl(c) == c \in 0..31 \/ c \in 127..159

\* the decimal digits of n, as `format!("{}", n)` writes them
RECURSIVE Digits(_)
Digits(n) == IF n < 10 THEN <<48 + n>> ELSE Append(Digits(n \div 10), 48 + (n % 10))

\* the value of a string of digits
RECURSIVE DigitsValue(_)
DigitsValue(s) ==
    IF s = <<>> THEN 0
    ELSE 10 * DigitsValue(SubSeq(s, 1, Len(s) - 1)) + (s[Len(s)] - 48)

\* usize, 64 bits wide.  A value below 2^31 is that integer; a value v in
\* the top of the range, 2^64 - 2^31 <= v <= 2^64 - 1, is the negative
\* integer v - 2^64.  Sums and differences of the integers are then the
\* wrapped sums and differences of the values.
\* a < b as usize
ULt(a, b) == IF (a < 0) = (b < 0) THEN a < b ELSE a >= 0

\* a <= b as usize
ULe(a, b) == a = b \/ ULt(a, b)

\* a + b does not fit a usize
AddOverflows(a, b) ==
    \/ a < 0 /\ b < 0
    \/ (a < 0) # (b < 0) /\ a + b >= 0

\* a string without its leading '0's
RECURSIVE StripZeros(_)
StripZeros(s) ==
    IF Len(s) > 1 /\ s[1] = 48 THEN StripZeros(Tail(s)) ELSE s

\* usize::MAX = 18 446744073 709551615, in three groups of decimal digits
USizeMaxHigh == 18
USizeMaxMid == 446744073
USizeMaxLow == 709551615

\* str::parse::<usize>() of a string of digits, ';' and '?': Ok only for a
\* non-empty string of digits whose value is at most usize::MAX
ParseUsize(s) ==
    IF s # <<>> /\ \A i \in 1..Len(s) : IsAsciiDigit(s[i])
    THEN LET d == StripZeros(s)
             high == DigitsValue(SubSeq(d, 1, Len(d) - 18))
             mid == DigitsValue(SubSeq(d, Len(d) - 17, Len(d) - 9))
             low == DigitsValue(SubSeq(d, Len(d) - 8, Len(d)))
         IN  IF Len(d) < 20 THEN Some(DigitsValue(d))
             ELSE IF Len(d) > 20 \/ high > USizeMaxHigh
                     \/ (high = USizeMaxHigh /\ mid > USizeMaxMid)
                     \/ (high = USizeMaxHigh /\ mid = USizeMaxMid /\ low > USizeMaxLow)
             THEN NoValue
             ELSE IF high = USizeMaxHigh /\ mid = USizeMaxMid
             THEN Some(low - (USizeMaxLow + 1))
             ELSE Some(DigitsValue(d))
    ELSE NoValue

\* str::parse::<u8>()
ParseU8(s) ==
    IF ParseUsize(s) # NoValue /\ ParseUsize(s)[1] \in 0..255 THEN ParseUsize(s) ELSE NoValue

UnwrapOr(opt, default) == IF opt = NoValue THEN default ELSE opt[1]

\* usize::saturating_sub
SaturatingSub(a, b) == IF ULe(b, a) THEN a - b ELSE 0

\* Ord::min of two usize
Min(a, b) == IF ULe(a, b) THEN a ELSE b

\* str::split(sep): the pieces between the separators, empty ones included
RECURSIVE Split(_, _)
Split(s, sep) ==
    LET at == {i \in 1..Len(s) : s[i] = sep}
    IN  IF at = {} THEN <<s>>
        ELSE LET i == CHOOSE j \in at : \A k \in at : j <= k
             IN  <<SubSeq(s, 1, i - 1)>> \o Split(SubSeq(s, i + 1, Len(s)), sep)

\* parts.get(i) of a 0-based index
Get(parts, i) == IF i + 1 <= Len(parts) THEN Some(parts[i + 1]) ELSE NoValue

\* ui/terminal.rs:358-373, 374-381  the colour of an SGR colour code
SgrColor(n) ==
    CASE n \in {30, 40} -> Color("Black")
      [] n \in {31, 41} -> Color("Red")
      [] n \in {32, 42} -> Color("Green")
      [] n \in {33, 43} -> Color("Yellow")
      [] n \in {34, 44} -> Color("Blue")
      [] n \in {35, 45} -> Color("Magenta")
      [] n \in {36, 46} -> Color("Cyan")
      [] n \in {37, 47} -> Color("White")
      [] n = 90 -> Color("DarkGray")
      [] n = 91 -> Color("LightRed")
      [] n = 92 -> Color("LightGreen")
      [] n = 93 -> Color("LightYellow")
      [] n = 94 -> Color("LightBlue")
      [] n = 95 -> Color("LightMagenta")
      [] n = 96 -> Color("LightCyan")
      [] n = 97 -> Color("Gray")

\* the codes matched as string literals at ui/terminal.rs:354-381
ForegroundCodes == (30..37) \cup (90..97)
BackgroundCodes == 40..47

\* a part equals the literal of code n
IsCode(part, n) == part = Digits(n)

\* ui/terminal.rs:353-403  one arm of the match: the style after parts[i]
SgrArm(parts, i, style) ==
    LET part == parts[i]
    IN  IF IsCode(part, 0) THEN DefaultStyle
        ELSE IF IsCode(part, 1)
        THEN [style EXCEPT !.add_modifier = @ \cup {"BOLD"}]
        ELSE IF IsCode(part, 4)
        THEN [style EXCEPT !.add_modifier = @ \cup {"UNDERLINED"}]
        ELSE IF IsCode(part, 7)
        THEN [style EXCEPT !.add_modifier = @ \cup {"REVERSED"}]
        ELSE IF \E n \in ForegroundCodes : IsCode(part, n)
        THEN [style EXCEPT !.fg = SgrColor(DigitsValue(part))]
        ELSE IF \E n \in BackgroundCodes : IsCode(part, n)
        THEN [style EXCEPT !.bg = SgrColor(DigitsValue(part))]
        ELSE IF (IsCode(part, 38) \/ IsCode(part, 48))
                /\ i + 2 <= Len(parts) /\ IsCode(parts[i + 1], 5)
                /\ ParseU8(parts[i + 2]) # NoValue
        THEN IF IsCode(part, 38)
             THEN [style EXCEPT !.fg = Indexed(ParseU8(parts[i + 2])[1])]
             ELSE [style EXCEPT !.bg = Indexed(ParseU8(parts[i + 2])[1])]
        ELSE style

\* variant: 38 and 48 skip nothing
SgrSkipNone(parts, i) == 0

\* ui/terminal.rs:382-401  38 and 48 skip the two parts after them when the
\* first of the two is "5"
SgrSkip(parts, i) ==
    IF (IsCode(parts[i], 38) \/ IsCode(parts[i], 48))
       /\ i + 2 <= Len(parts) /\ IsCode(parts[i + 1], 5)
    THEN 2 ELSE 0

\* ui/terminal.rs:352-405  while i < parts.len()
RECURSIVE SgrLoop(_, _, _)
SgrLoop(parts, i, style) ==
    IF i > Len(parts) THEN style
    ELSE SgrLoop(parts, i + SgrSkip(parts, i) + 1, SgrArm(parts, i, style))

\* variant: the codes are applied onto a fresh default style
ParseSgrCodesFresh(codes, style) ==
    IF codes = <<>> \/ codes = Digits(0) THEN DefaultStyle
    ELSE SgrLoop(Split(codes, 59), 1, DefaultStyle)

\* variant: a list with a 38 or 48 that lacks its "5" and index is rejected
\* whole
ParseSgrCodesAllOrNothing(codes, style) ==
    LET parts == Split(codes, 59)
    IN  IF codes = <<>> \/ codes = Digits(0) THEN DefaultStyle
        ELSE IF \E i \in 1..Len(parts) :
                   /\ IsCode(parts[i], 38) \/ IsCode(parts[i], 48)
                   /\ ~(i + 2 <= Len(parts) /\ IsCode(parts[i + 1], 5))
        THEN style
        ELSE SgrLoop(parts, 1, style)

\* variant: without the early return for "" and "0"
ParseSgrCodesLoopOnly(codes, style) == SgrLoop(Split(codes, 59), 1, style)

\* ui/terminal.rs:343-408  parse_sgr_codes
ParseSgrCodes(codes, style) ==
    IF codes = <<>> \/ codes = Digits(0) THEN DefaultStyle
    ELSE SgrLoop(Split(codes, 59), 1, style)

\* ui/terminal.rs:100-108  TerminalBuffer::new; `fault` records that the
\* program panicked or aborted: a row or a cell indexed outside its Vec, an
\* addition that overflows in a build with overflow checks, a Vec grown past
\* what can be allocated.  `overflow_checks` is the build: with the checks
\* (the dev profile) an overflowing `+` panics, without them (the release
\* profile) it wraps.
New(cols, max_lines) ==
    [lines |-> [len |-> max_lines, rows |-> <<>>],
     cursor_row |-> 0,
     cursor_col |-> 0,
     current_style |-> DefaultStyle,
     max_cols |-> cols,
     fault |-> FALSE,
     overflow_checks |-> TRUE]

\* `a + n` panics: it overflows in a build with overflow checks; in a build
\* without them the sum wraps
AddPanics(t, a, n) == AddOverflows(a, n) /\ t.overflow_checks

\* panic!
Panic(t) == [t EXCEPT !.fault = TRUE]

\* self.lines[row], read
Row(t, row) == IF row \in DOMAIN t.lines.rows THEN t.lines.rows[row] ELSE <<>>

\* the indexing self.lines[row]: in range only below lines.len()
IndexRow(t, row) == [t EXCEPT !.fault = @ \/ ULe(t.lines.len, row)]

\* self.lines[row] = cells
SetRow(t, row, cells) ==
    LET rows == t.lines.rows
        keep == IF Len(cells) = 0 THEN DOMAIN rows \ {row} ELSE DOMAIN rows \cup {row}
    IN  [t EXCEPT !.lines.rows =
            IF keep = {} THEN <<>>
            ELSE [r \in keep |-> IF r = row THEN cells ELSE rows[r]]]

\* variant: ensure_line leaves the grid as it is
EnsureLineNever(t, row) == t

\* ui/terminal.rs:110-114  ensure_line; a Vec of 2^64 - 2^31 rows or more
\* cannot be allocated, the loop ends in a panic or an abort
EnsureLine(t, row) ==
    IF row < 0 THEN [t EXCEPT !.fault = TRUE]
    ELSE [t EXCEPT !.lines.len = IF @ <= row THEN row + 1 ELSE @]

\* n cells (' ', style)
Spaces(n, style) == [i \in 1..n |-> Cell(32, style)]

\* ui/terminal.rs:120-122  while len <= cursor_col: push (' ', current_style)
Padded(cells, col, style) ==
    cells \o Spaces(col + 1 - Len(cells), style)

\* variant: the character is stored with the default style
WriteCellPlain(cells, col, ch, style) ==
    [cells EXCEPT ![col + 1] = Cell(ch, DefaultStyle)]

\* ui/terminal.rs:125-129  the cell at cursor_col becomes (ch, current_style)
WriteCell(cells, col, ch, style) ==
    IF col < Len(cells) THEN [cells EXCEPT ![col + 1] = Cell(ch, style)]
    ELSE Append(cells, Cell(ch, style))

\* ui/terminal.rs:116-132  write_char; nothing follows a panic, and a row
\* cannot be padded to 2^64 - 2^31 cells or more
WriteChar(t, ch) ==
    LET t1 == IndexRow(EnsureLine(t, t.cursor_row), t.cursor_row)
        padded == Padded(Row(t1, t1.cursor_row), t1.cursor_col, t1.current_style)
    IN  IF t1.fault THEN t1
        ELSE IF t1.cursor_col < 0 THEN [t1 EXCEPT !.fault = TRUE]
        ELSE IF ULt(t1.cursor_col, t1.max_cols)
        THEN [SetRow(t1, t1.cursor_row,
                     WriteCell(padded, t1.cursor_col, ch, t1.current_style))
                EXCEPT !.cursor_col = @ + 1]
        ELSE SetRow(t1, t1.cursor_row, padded)

\* ui/terminal.rs:190-192  for _ in 0..spaces { self.write_char(' ') }
RECURSIVE WriteSpaces(_, _)
WriteSpaces(t, spaces) ==
    IF spaces = 0 \/ t.fault THEN t ELSE WriteSpaces(WriteChar(t, 32), spaces - 1)

\* ui/terminal.rs:204-211  'H' | 'f'
CursorPosition(t, params) ==
    LET parts == Split(params, 59)
        row == SaturatingSub(UnwrapOr(IF Get(parts, 0) = NoValue THEN NoValue
                                      ELSE ParseUsize(Get(parts, 0)[1]), 1), 1)
        col == SaturatingSub(UnwrapOr(IF Get(parts, 1) = NoValue THEN NoValue
                                      ELSE ParseUsize(Get(parts, 1)[1]), 1), 1)
    IN  [t EXCEPT !.cursor_row = row, !.cursor_col = col]

\* variant: truncate keeps the cell at `col` too
TruncateAfter(cells, col) == SubSeq(cells, 1, Min(col + 1, Len(cells)))

\* Vec::truncate(col)
Truncate(cells, col) == SubSeq(cells, 1, Min(col, Len(cells)))

\* ui/terminal.rs:247-251  every row cleared, the cursor to (0, 0)
ClearScreen(t) == [t EXCEPT !.lines.rows = <<>>, !.cursor_row = 0, !.cursor_col = 0]

\* ui/terminal.rs:232-255  'J'
EraseDisplay(t, params) ==
    LET mode == UnwrapOr(ParseUsize(params), 0)
    IN  IF mode = 0
        THEN IF ULt(t.cursor_row, t.lines.len)
             THEN LET t1 == IndexRow(t, t.cursor_row)
                      above == {r \in DOMAIN t1.lines.rows : r < t1.cursor_row}
                      first == Truncate(Row(t1, t1.cursor_row), t1.cursor_col)
                  IN  SetRow([t1 EXCEPT !.lines.rows =
                                 IF above = {} THEN <<>> ELSE [r \in above |-> @[r]]],
                             t1.cursor_row, first)
             ELSE t
        ELSE IF mode = 2
        THEN ClearScreen(t)
        ELSE t

\* ui/terminal.rs:256-278  'K'
EraseLine(t, params) ==
    LET mode == UnwrapOr(ParseUsize(params), 0)
    IN  IF ULt(t.cursor_row, t.lines.len)
        THEN LET t1 == IndexRow(t, t.cursor_row)
                 cells == Row(t1, t1.cursor_row)
             IN  IF mode = 0
                 THEN SetRow(t1, t1.cursor_row, Truncate(cells, t1.cursor_col))
                 ELSE IF mode = 1
                 THEN SetRow(t1, t1.cursor_row,
                             Spaces(Min(t1.cursor_col, Len(cells)), t1.current_style)
                             \o SubSeq(cells, Min(t1.cursor_col, Len(cells)) + 1,
                                       Len(cells)))
                 ELSE IF mode = 2
                 THEN SetRow(t1, t1.cursor_row, <<>>)
                 ELSE t1
        ELSE t

\* ui/terminal.rs:199-304  handle_csi; cmd is the command character
HandleCsi(t, params, cmd) ==
    LET n == UnwrapOr(ParseUsize(params), 1)
    IN  CASE cmd = 109 -> [t EXCEPT !.current_style = ParseSgrCodes(params, @)]
          [] cmd \in {72, 102} -> CursorPosition(t, params)
          [] cmd = 65 -> [t EXCEPT !.cursor_row = SaturatingSub(@, n)]
          [] cmd = 66 -> IF AddPanics(t, t.cursor_row, n) THEN Panic(t)
                         ELSE [t EXCEPT !.cursor_row = @ + n]
          [] cmd = 67 -> IF AddPanics(t, t.cursor_col, n) THEN Panic(t)
                         ELSE [t EXCEPT !.cursor_col = Min(@ + n, t.max_cols - 1)]
          [] cmd = 68 -> [t EXCEPT !.cursor_col = SaturatingSub(@, n)]
          [] cmd = 74 -> EraseDisplay(t, params)
          [] cmd = 75 -> EraseLine(t, params)
          [] cmd = 71 -> [t EXCEPT !.cursor_col = Min(SaturatingSub(n, 1), t.max_cols - 1)]
          [] cmd = 100 -> [t EXCEPT !.cursor_row = SaturatingSub(n, 1)]
          [] OTHER -> t

\* the position of process() in its input: the branch of ui/terminal.rs:137-196
\* the next character is read in, with the CSI parameters collected so far
\* and the previous character of an OSC string
Ground == [mode |-> "ground", params |-> <<>>, prev |-> 32]

\* variant: backspace also removes the cell it steps back onto
BackspaceErasing(t) ==
    IF t.cursor_col > 0
    THEN SetRow([t EXCEPT !.cursor_col = @ - 1], t.cursor_row,
                SubSeq(Row(t, t.cursor_row), 1,
                       Min(t.cursor_col - 1, Len(Row(t, t.cursor_row)))))
    ELSE t

\* ui/terminal.rs:184-187  '\x08'
Backspace(t) == [t EXCEPT !.cursor_col = IF @ # 0 THEN @ - 1 ELSE @]

\* variant: tab stops every 4 columns
TabSpacesFour(col) == 4 - (col % 4)

\* ui/terminal.rs:189  let spaces = 8 - (self.cursor_col % 8)
TabSpaces(col) == 8 - (col % 8)

\* ui/terminal.rs:179-195  a character outside an escape sequence
ProcessPlain(t, ch) ==
    IF ch = 10 THEN IF AddPanics(t, t.cursor_row, 1) THEN Panic(t)
                    ELSE [t EXCEPT !.cursor_row = @ + 1, !.cursor_col = 0]
    ELSE IF ch = 13 THEN [t EXCEPT !.cursor_col = 0]
    ELSE IF ch = 8 THEN Backspace(t)
    ELSE IF ch = 9 THEN WriteSpaces(t, TabSpaces(t.cursor_col))
    ELSE IF ~IsControl(ch) THEN WriteChar(t, ch)
    ELSE t

\* variant: only BEL ends an OSC string
OscEndsAtBel(prev, c) == c = 7

\* ui/terminal.rs:163  c == '\x07' || (prev == '\x1b' && c == '\\')
OscEnds(prev, c) == c = 7 \/ (prev = 27 /\ c = 92)

\* ui/terminal.rs:137-196  one turn of `while let Some(ch) = chars.next()`,
\* taken one character at a time: s is [t |-> the buffer, at |-> the position]
ProcessChar(s, ch) ==
    LET t == s.t
        at == s.at
    IN  CASE at.mode = "ground" ->
               IF ch = 27 THEN [s EXCEPT !.at.mode = "esc"]
               ELSE [s EXCEPT !.t = ProcessPlain(t, ch)]
          [] at.mode = "esc" ->
               IF ch = 91 THEN [s EXCEPT !.at = [Ground EXCEPT !.mode = "csi"]]
               ELSE IF ch = 93 THEN [s EXCEPT !.at = [Ground EXCEPT !.mode = "osc"]]
               ELSE IF ch \in {40, 41} THEN [s EXCEPT !.at.mode = "charset"]
               ELSE [s EXCEPT !.at = Ground]
          [] at.mode = "csi" ->
               IF IsAsciiDigit(ch) \/ ch = 59 \/ ch = 63
               THEN [s EXCEPT !.at.params = Append(@, ch)]
               ELSE [t |-> HandleCsi(t, at.params, ch), at |-> Ground]
          [] at.mode = "osc" ->
               IF OscEnds(at.prev, ch) THEN [s EXCEPT !.at = Ground]
               ELSE [s EXCEPT !.at.prev = ch]
          [] at.mode = "charset" -> [s EXCEPT !.at = Ground]

\* ui/terminal.rs:134-197  process, from a position within a longer input
RECURSIVE ProcessFrom(_, _)
ProcessFrom(s, text) ==
    IF text = <<>> \/ s.t.fault THEN s
    ELSE ProcessFrom(ProcessChar(s, Head(text)), Tail(text))

\* the rows that hold cells, in row order
RECURSIVE RowsInOrder(_)
RowsInOrder(rows) ==
    IF rows = {} THEN <<>>
    ELSE LET r == CHOOSE x \in rows : \A y \in rows : x <= y
         IN  <<r>> \o RowsInOrder(rows \ {r})

\* ui/terminal.rs:314-331  the spans of one row: the loop starts a new span
\* at every cell whose style differs from the cell before it, so the spans
\* are the maximal runs of cells of one style, each with its characters
Spans(cells) ==
    LET starts == {i \in 1..Len(cells) : i = 1 \/ cells[i].style # cells[i - 1].style}
        nth(k) == CHOOSE i \in starts : Cardinality({j \in starts : j <= i}) = k
        last(k) == IF k = Cardinality(starts) THEN Len(cells) ELSE nth(k + 1) - 1
    IN  [k \in 1..Cardinality(starts) |->
            [content |-> [j \in 1..(last(k) - nth(k) + 1) |-> cells[nth(k) + j - 1].ch],
             style |-> cells[nth(k)].style]]

\* variant: no cell starts a new span
StyleDiffersNever(style, current_style) == FALSE

\* ui/terminal.rs:319  if style != current_style
StyleDiffers(style, current_style) == style # current_style

\* Span::styled(text, style)
Span(text, style) == [content |-> text, style |-> style]

\* ui/terminal.rs:318-331  `for &(ch, style) in line`, from the cell i on,
\* and the push of the last span after it
RECURSIVE SpanLoop(_, _, _, _, _)
SpanLoop(cells, i, spans, current_text, current_style) ==
    IF i > Len(cells)
    THEN IF current_text # <<>> THEN Append(spans, Span(current_text, current_style))
         ELSE spans
    ELSE LET differs == StyleDiffers(cells[i].style, current_style)
             pushed == IF differs /\ current_text # <<>>
                       THEN Append(spans, Span(current_text, current_style))
                       ELSE spans
             kept == IF differs THEN <<>> ELSE current_text
             style == IF differs THEN cells[i].style ELSE current_style
         IN  SpanLoop(cells, i + 1, pushed, Append(kept, cells[i].ch), style)

\* ui/terminal.rs:314-331  the spans of one row, by the loop
SpansByLoop(cells) == SpanLoop(cells, 1, <<>>, <<>>, DefaultStyle)

\* ui/terminal.rs:306-339  to_lines by the loop: a row without cells is
\* skipped, and so is a row without spans
RECURSIVE LinesByLoop(_, _)
LinesByLoop(t, order) ==
    IF order = <<>> THEN <<>>
    ELSE LET spans == SpansByLoop(Row(t, Head(order)))
         IN  (IF Row(t, Head(order)) = <<>> \/ spans = <<>> THEN <<>> ELSE <<spans>>)
             \o LinesByLoop(t, Tail(order))

ToLinesByLoop(t) == LinesByLoop(t, RowsInOrder(DOMAIN t.lines.rows))

\* ui/terminal.rs:306-339  to_lines: rows without cells are skipped
RECURSIVE LinesOf(_, _)
LinesOf(t, order) ==
    IF order = <<>> THEN <<>>
    ELSE <<Spans(Row(t, Head(order)))>>
         \o LinesOf(t, Tail(order))

ToLines(t) == LinesOf(t, RowsInOrder(DOMAIN t.lines.rows))

\* the text of a line: its spans' contents, joined
RECURSIVE LineText(_)
LineText(line) == IF line = <<>> THEN <<>> ELSE Head(line).content \o LineText(Tail(line))

\* ESC [ params cmd
Csi(params, cmd) == <<27, 91>> \o params \o <<cmd>>

\* the pieces of input text a behaviour is put together from: printable
\* text, control characters, a bare ESC, and CSI sequences
PlainTokens == { <<65>>, <<88>>, <<72, 105>>, <<10>>, <<13>>, <<8>>, <<9>>, <<27>> }

SgrTokens == { Csi(Digits(31), 109), Csi(Digits(0), 109), Csi(<<>>, 109) }

CursorTokens ==
    { Csi(Digits(5) \o <<59>> \o Digits(10), 72),      \* ESC[5;10H
      Csi(<<>>, 72),                                   \* ESC[H
      Csi(<<59>> \o Digits(3), 102),                   \* ESC[;3f
      Csi(Digits(1) \o <<59>> \o Digits(201), 72),     \* ESC[1;201H
      Csi(Digits(1002), 72),                           \* ESC[1002H
      Csi(<<>>, 65),                                   \* ESC[A
      Csi(Digits(1000), 66),                           \* ESC[1000B
      Csi(Digits(300), 67),                            \* ESC[300C
      Csi(<<>>, 68),                                   \* ESC[D
      Csi(Digits(200), 71),                            \* ESC[200G
      Csi(Digits(1001), 100) }                         \* ESC[1001d

EraseTokens ==
    { Csi(<<>>, 74), Csi(Digits(2), 74),
      Csi(<<>>, 75), Csi(Digits(1), 75), Csi(Digits(2), 75) }

Tokens == PlainTokens \cup SgrTokens \cup CursorTokens \cup EraseTokens

\* ui/terminal.rs:85  let mut buffer = TerminalBuffer::new(200, 1000), before
\* process() has read anything
InitTerm ==
    /\ terminal_buffer = New(MAX_COLS, MAX_LINES)
    /\ processAt = Ground
    /\ tokens = 0
    /\ lastToken = <<>>
    /\ inputText = Some(<<>>)

\* ui/terminal.rs:134-197  process() reads the next piece of its input
Process(token) ==
    /\ tokens < MaxTokens
    /\ ~terminal_buffer.fault
    /\ LET s == ProcessFrom([t |-> terminal_buffer, at |-> processAt], token)
       IN  /\ terminal_buffer' = s.t
           /\ processAt' = s.at
    /\ tokens' = tokens + 1
    /\ lastToken' = token
    /\ inputText' =
          IF inputText # NoValue /\ Len(inputText[1]) + Len(token) <= MaxTextKept
          THEN Some(inputText[1] \o token) ELSE NoValue
    /\ UNCHANGED otherThanTerm

Interpreter == \E token \in Tokens : Process(token)

\* process() reads input put together from the pieces of T
Reading(T) == \E token \in T : Process(token)

\* the buffer before process() has read anything, in a build with or without
\* overflow checks
InitTermBuild(checks) ==
    /\ terminal_buffer = [New(MAX_COLS, MAX_LINES) EXCEPT !.overflow_checks = checks]
    /\ processAt = Ground
    /\ tokens = 0
    /\ lastToken = <<>>
    /\ inputText = Some(<<>>)

\* usize::MAX, 18446744073709551615
USIZE_MAX == 0 - 1

\* the decimal digits of usize::MAX
USizeMaxDigits ==
    Digits(USizeMaxHigh) \o Digits(USizeMaxMid) \o Digits(USizeMaxLow)

\* the cursor movements of the input: <<parameters, command, N>>
Moves ==
    { <<<<>>, 65, 1>>, <<Digits(3), 65, 3>>,
      <<<<>>, 66, 1>>, <<Digits(2), 66, 2>>, <<Digits(1000), 66, 1000>>,
      <<USizeMaxDigits, 66, USIZE_MAX>>,
      <<<<>>, 67, 1>>, <<Digits(5), 67, 5>>, <<Digits(300), 67, 300>>,
      <<USizeMaxDigits, 67, USIZE_MAX>>,
      <<<<>>, 68, 1>>, <<Digits(2), 68, 2>>,
      <<<<>>, 71, 1>>, <<Digits(7), 71, 7>>, <<Digits(300), 71, 300>>,
      <<<<>>, 100, 1>>, <<Digits(3), 100, 3>>, <<Digits(1001), 100, 1001>> }

\* the digits of usize::MAX + 1, which parse::<usize>() rejects
TooLargeDigits ==
    Digits(USizeMaxHigh) \o Digits(USizeMaxMid) \o Digits(USizeMaxLow + 1)

\* three rows of text
ThreeRows == <<65, 10, 88, 10, 72, 105>>

\* the parameters of the erase commands of the input
EraseDisplayParams == { <<>>, Digits(0), Digits(1), Digits(2), Digits(3), TooLargeDigits }

EraseLineParams == { <<>>, Digits(0), Digits(1), Digits(2) }

\* text, cursor movements, a background colour and the erase commands
EraseAndTextTokens ==
    { <<65>>, <<72, 105>>, ThreeRows, <<10>>,
      Csi(<<>>, 65), Csi(<<>>, 68), Csi(Digits(2) \o <<59>> \o Digits(2), 72),
      Csi(Digits(1002), 72),
      Csi(Digits(41), 109) }
    \cup { Csi(p, 74) : p \in EraseDisplayParams }
    \cup { Csi(p, 75) : p \in EraseLineParams }

\* CSI sequences of digits, ';' and '?' and a command that handle_csi
\* ignores, each followed by "X": <<input, the text the pane should show>>
IgnoredCsi ==
    { <<Csi(<<>>, 115) \o <<88>>, <<88>>>>,                             \* ESC[s X
      <<Csi(<<>>, 117) \o <<88>>, <<88>>>>,                             \* ESC[u X
      <<Csi(Digits(1) \o <<59>> \o Digits(24), 114) \o <<88>>, <<88>>>>, \* ESC[1;24r X
      <<Csi(<<63>> \o Digits(2004), 104) \o <<88>>, <<88>>>>,           \* ESC[?2004h X
      <<Csi(<<63>> \o Digits(25), 108) \o <<88>>, <<88>>>>,             \* ESC[?25l X
      <<Csi(Digits(99), 122) \o <<88>>, <<88>>>> }                      \* ESC[99z X

\* CSI sequences with an intermediate or a private parameter character
\* before the command: ESC[2 q X (cursor shape) and ESC[>0c X (device
\* attributes)
IgnoredCsiIntermediate ==
    { << <<27, 91, 50, 32, 113, 88>>, <<88>> >>,
      << <<27, 91, 62, 48, 99, 88>>, <<88>> >> }

\* the other escape forms, each followed by more input:
\* <<input, the text the pane should show>>
EscapeForms ==
    { << <<27, 93, 48, 59, 116, 7, 65>>, <<65>> >>,         \* ESC]0;t BEL A
      << <<27, 93, 116, 27, 92, 65>>, <<65>> >>,            \* ESC]t ESC\ A
      << <<27, 93, 116, 7, 88, 27, 92, 65>>, <<88, 65>> >>, \* ESC]t BEL X ESC\ A
      << <<27, 93, 92, 116, 27, 88, 7, 65>>, <<65>> >>,     \* ESC]\t ESC X BEL A
      << <<27, 40, 66, 65>>, <<65>> >>,                     \* ESC(B A
      << <<27, 41, 48, 65>>, <<65>> >>,                     \* ESC)0 A
      << <<27, 40, 65>>, <<>> >>,                           \* ESC(A
      << <<27, 61, 65>>, <<65>> >>,                         \* ESC= A
      << <<27, 62, 65>>, <<65>> >>,                         \* ESC> A
      << <<27, 77, 65>>, <<65>> >>,                         \* ESC M A
      << <<27, 55, 56, 65>>, <<56, 65>> >>,                 \* ESC 7 8 A
      << <<27, 27, 65>>, <<65>> >> }                        \* ESC ESC A

\* text, a colour, a cursor movement and the sequences above
EscapeAndTextTokens ==
    { <<72, 105>>, <<10>>, Csi(Digits(31), 109), Csi(<<>>, 68), Csi(Digits(5), 67) }
    \cup { e[1] : e \in IgnoredCsi \cup IgnoredCsiIntermediate \cup EscapeForms }

\* text with a blank line in it, colours, a modifier, and cursor movements
\* and an erase that leave gaps and cut rows
StyledTextTokens ==
    { <<65>>, <<72, 105>>, <<10>>, <<10, 10, 88>>,
      Csi(Digits(31), 109), Csi(Digits(0), 109), Csi(Digits(1), 109),
      Csi(Digits(41), 109),
      Csi(<<>>, 68), Csi(<<>>, 65), Csi(Digits(3) \o <<59>> \o Digits(3), 72),
      Csi(<<>>, 75) }

\* the codes joined by ';'
RECURSIVE Join(_)
Join(codes) ==
    IF codes = <<>> THEN <<>>
    ELSE IF Len(codes) = 1 THEN Digits(codes[1])
    ELSE Digits(codes[1]) \o <<59>> \o Join(Tail(codes))

\* the SGR lists of the input: attributes, colours, codes the resolver does
\* not know (5, 99), and code 0 at the start, in the middle and at the end
SgrLists ==
    { <<>>, <<0>>, <<1>>, <<4>>, <<7>>, <<31>>, <<32>>, <<44>>, <<97>>,
      <<1, 31>>, <<31, 1, 44>>, <<99>>, <<99, 4>>, <<4, 5, 32>>,
      <<1, 0, 32>>, <<31, 0>>, <<0, 7>>, <<44, 0, 99, 4, 0, 1>> }

SgrListTokens == { Csi(Join(codes), 109) : codes \in SgrLists }

\* SGR lists with an indexed colour:
\* <<the codes before it, 38 or 48, the index, the codes after it>>
IndexedLists ==
    { << <<>>, 38, 196, <<>> >>, << <<>>, 48, 21, <<>> >>,
      << <<>>, 38, 1, <<>> >>, << <<>>, 38, 31, <<>> >>,
      << <<1>>, 38, 0, <<>> >>, << <<>>, 48, 255, <<>> >>,
      << <<4>>, 48, 7, <<32>> >>, << <<7>>, 38, 44, <<41>> >> }

\* SGR lists that end where the "5" or the index of a 38 or 48 should be:
\* <<the codes before it, the 38 or 48 and what follows it>>
TruncatedLists ==
    { << <<>>, <<38>> >>, << <<>>, <<48>> >>, << <<>>, <<38, 5>> >>,
      << <<>>, <<48, 5>> >>, << <<1>>, <<38>> >>, << <<31>>, <<48, 5>> >>,
      << <<4, 44>>, <<38, 5>> >> }

ExtendedColourTokens ==
    { Csi(Join(l[1] \o <<l[2], 5, l[3]>> \o l[4]), 109) : l \in IndexedLists }
    \cup { Csi(Join(l[1] \o l[2]), 109) : l \in TruncatedLists }

MoveTokens == { Csi(m[1], m[2]) : m \in Moves }

MoveAndTextTokens == MoveTokens \cup { <<72, 105>>, <<10>> }

(***************************************************************************)
(* Specifications                                                          *)
(***************************************************************************)
\* one local session: the reader thread and the UI thread
Init == InitLocal(MaxReads) /\ InitRemote /\ IdleApp /\ InitTerm

Next == Reader \/ Ui

Spec == Init /\ [][Next]_vars

\* the scheduler runs the UI thread; nothing is assumed of the reader, which
\* may stay in its read forever
LiveInit == InitLocal(MaxReadsLive) /\ InitRemote /\ IdleApp /\ InitTerm

LiveSpec == LiveInit /\ [][Next]_vars /\ WF_vars(Ui)

\* a local session whose reader thread may panic while it holds its guards
PoisonInit == InitLocal(MaxReadsPoison) /\ InitRemote /\ IdleApp /\ InitTerm

PoisonNext == Reader \/ Ui \/ ReaderPanic

PoisonSpec == PoisonInit /\ [][PoisonNext]_vars

\* a local session whose shell colours its output, drawn by the render tick
\* (ui/terminal.rs:26 calls get_output on every draw)
DrawnInit == InitLocalOn(ColouredStreams, MaxReads) /\ InitRemote /\ IdleApp /\ InitTerm

Draw ==
    \/ CallGetOutput
    \/ UiLock("cache")
    \/ UiUnlock("cache")
    \/ UiClone
    \/ UiReturn

DrawnNext == Reader \/ Draw

DrawnSpec == DrawnInit /\ [][DrawnNext]_vars

\* one remote session, called from the UI thread
RemoteInit == InitLocal(0) /\ InitRemote /\ IdleApp /\ InitTerm

RemoteSpec == RemoteInit /\ [][Remote]_vars

\* the event loop of run_app over an App
AppInit == InitLocal(0) /\ InitRemote /\ InitApp(MaxKeys) /\ InitTerm

AppSpec == AppInit /\ [][EventLoop]_vars

\* the event loop over directories of several lengths, in a terminal that
\* is resized
NavInit ==
    InitLocal(0) /\ InitRemote /\ InitAppOn(MaxKeysNav, ListingLengths, PanelRows)
        /\ InitTerm

NavNext ==
    \/ KeyEvent(NavKeys)
    \/ DrawFrame
    \/ \E rows \in PanelRows : Resize(rows)

NavSpec == NavInit /\ [][NavNext]_vars

\* parse_ansi_output on any input text
TermInit == InitLocal(0) /\ InitRemote /\ IdleApp /\ InitTerm

TermSpec == TermInit /\ [][Interpreter]_vars

\* the interpreter reading text and cursor movements, in either build
CursorInit ==
    /\ InitLocal(0) /\ InitRemote /\ IdleApp
    /\ \E checks \in BOOLEAN : InitTermBuild(checks)

CursorNext == Reading(MoveAndTextTokens)

CursorSpec == CursorInit /\ [][CursorNext]_vars

\* the interpreter reading styled text
RunsNext == Reading(StyledTextTokens)

RunsSpec == TermInit /\ [][RunsNext]_vars

\* the interpreter reading SGR sequences
SgrNext == Reading(SgrListTokens \cup ExtendedColourTokens)

SgrSpec == TermInit /\ [][SgrNext]_vars

\* the interpreter reading text and sequences it discards
EscapeNext == Reading(EscapeAndTextTokens)

EscapeSpec == TermInit /\ [][EscapeNext]_vars

\* the interpreter reading text and erase commands
EraseNext == Reading(EraseAndTextTokens)

EraseSpec == TermInit /\ [][EraseNext]_vars

\* the event loop together with the functions of the terminal pane
PaneInit == InitLocal(0) /\ InitRemote /\ InitApp(MaxKeysPane) /\ InitTerm

PaneNext ==
    \/ KeyEvent(PaneKeys)
    \/ EventLoopIoError
    \/ \E sd \in Sides : ShellExits(sd)
    \/ TerminalPane

PaneSpec == PaneInit /\ [][PaneNext]_vars

(***************************************************************************)
(* Properties of the local session                                         *)
(***************************************************************************)
BufferLen == VecLen(output_buffer)

\* C1 as stated: the raw buffer never holds more than 100,000 bytes, in any
\* reachable state, the state between extending and evicting included.
C1_NeverAboveCap ==
    BufferLen <= BUFFER_CAP

\* C1, amended: the raw buffer holds at most 100,000 bytes in every state
\* except the one inside the append step between extend_from_slice and the
\* eviction check.
C1_CapOutsideExtendEvict ==
    ReaderInstr # <<"evict">> => BufferLen <= BUFFER_CAP

\* the reader is back in read() after an append that evicted
C1_Witness ==
    /\ ReaderInstr = <<"read">>
    /\ clears = 0
    /\ arrived > BUFFER_CAP
    /\ BufferLen = arrived - DRAIN_LEN

\* C2: every string get_output returns is the lossy decode of the whole raw
\* buffer as it stood at the end of one append (the latest, or the one
\* before while the latest has not yet refreshed the cache), or the empty
\* string of the initial or cleared state.
C2_SnapshotOfOneAppend ==
    [][(returned' # returned /\ returned' # NoValue)
        => returned'[1] \in {EmptyString, Utf8Lossy(lastAppend), Utf8Lossy(prevAppend)}]_vars

\* get_output returns the decode of a buffer whose front the eviction cut
\* inside a character
C2_Witness ==
    /\ returned # NoValue
    /\ lastAppend # <<>>
    /\ lastAppend[1][1] = DRAIN_LEN
    /\ returned = Some(Utf8Lossy(lastAppend))
    /\ returned[1][1] = [cps |-> <<REPLACEMENT>>]

\* C3: the buffer is a contiguous suffix of the bytes appended since it was
\* last cleared, in arrival order.
C3_ContiguousSuffix ==
    \/ output_buffer = <<>>
    \/ /\ Len(output_buffer) = 1
       /\ output_buffer[1][2] = appendedTo
       /\ output_buffer[1][1] >= clearedAt
       /\ output_buffer[1][1] < output_buffer[1][2]

\* after a clear_output the buffer holds the two or more chunks appended since
C3_Witness ==
    /\ clearedAt > 0
    /\ output_buffer = << <<clearedAt, appendedTo>> >>
    /\ appendedTo > clearedAt + BUFFER_SIZE

\* C4: the buffer never holds more than 100,000 + 8192 bytes, and whenever
\* it shrinks other than by clear_output it held more than 100,000 bytes and
\* loses exactly its 50,000 oldest bytes in one step, the reader holding the
\* buffer lock since it appended the chunk just read.
C4_BoundedOvershootExactEviction ==
    /\ [](BufferLen <= BUFFER_CAP + BUFFER_SIZE)
    /\ [][(BufferLen' < BufferLen /\ UiInstr # <<"clear_buffer">>)
           => /\ BufferLen > BUFFER_CAP
              /\ Len(output_buffer) = 1
              /\ output_buffer' =
                    << <<output_buffer[1][1] + DRAIN_LEN, output_buffer[1][2]>> >>
              /\ lock["buffer"] = "reader"
              /\ lock'["buffer"] = "reader"
              /\ appendedTo = buf[2]
              /\ output_buffer[1][2] = buf[2]]_vars

\* the eviction has just cut a buffer of 100,000 + 8192 bytes
C4_Witness ==
    /\ ReaderInstr = <<"lock", "cache">>
    /\ BufferLen = BUFFER_CAP + BUFFER_SIZE - DRAIN_LEN
    /\ output_buffer[1][1] = DRAIN_LEN

\* C5: the reader and the UI thread never wait for each other's lock.
C5_NoCircularWait ==
    ~ \E l1 \in Locks, l2 \in Locks :
        /\ ReaderInstr = <<"lock", l1>> /\ ~poisoned[l1] /\ lock[l1] = "ui"
        /\ UiInstr = <<"lock", l2>> /\ ~poisoned[l2] /\ lock[l2] = "reader"

\* the reader, holding the buffer lock, waits for the cache lock that
\* clear_output holds
C5_Witness ==
    /\ ReaderInstr = <<"lock", "cache">>
    /\ lock["buffer"] = "reader"
    /\ lock["cache"] = "ui"
    /\ uiOp = "clear_output"

\* C6: get_output holds no lock but the cache lock, the reader holds no lock
\* while it is in read(), and a get_output call under way while the reader
\* is in read() returns unless the reader leaves the read.
C6_GetOutputReturns ==
    /\ [](uiOp = "get_output" => HeldBy("ui") \subseteq {"cache"})
    /\ [](ReaderInstr = <<"read">> => HeldBy("reader") = {})
    /\ ((uiOp = "get_output" /\ ReaderInstr = <<"read">>)
          ~> (UiInstr = <<"return">> \/ ReaderInstr # <<"read">>))

\* get_output returns cached output while the reader is in read()
C6_Witness ==
    /\ uiOp = "get_output"
    /\ UiInstr = <<"return">>
    /\ ReaderInstr = <<"read">>
    /\ readerState = "running"
    /\ returned # NoValue
    /\ returned # Some(EmptyString)

\* C7: clear_output never holds both locks; when the reader changed nothing
\* since the call began, buffer and cache are empty when it returns and the
\* next get_output returns the empty string.
C7_ClearOutput ==
    /\ HeldBy("ui") # Locks
    /\ (uiOp = "clear_output" /\ lock["cache"] = "ui") => output_buffer = <<>> \/ appendSinceClear
    /\ (uiOp = "clear_output" /\ UiInstr = <<"return">> /\ ~appendSinceClear)
          => (output_buffer = <<>> /\ cached_output = EmptyString)
    /\ (uiOp = "get_output" /\ returned # NoValue /\ clears > 0 /\ ~appendSinceClear)
          => returned = Some(EmptyString)

\* clear_output returns after it emptied a buffer that held output
C7_Witness ==
    /\ uiOp = "clear_output"
    /\ UiInstr = <<"return">>
    /\ ~appendSinceClear
    /\ clearedAt > BUFFER_SIZE
    /\ output_buffer = <<>>

\* C8: the reader has left its loop exactly when its latest read returned
\* end-of-stream or an error; leaving changes nothing the owner sees and
\* holds no lock; afterwards nothing is read or appended.
C8_ReaderExit ==
    /\ [](readerState = "exited" <=> lastRead \in {"eof", "error"})
    /\ [](readerState = "running" => (ReaderInstr = <<"read">> \/ lastRead = "data"))
    /\ [][(readerState = "running" /\ readerState' = "exited")
            => /\ HeldBy("reader") = {}
               /\ UNCHANGED <<output_buffer, cached_output, lock, poisoned, uiVars>>]_vars
    /\ [][readerState = "exited"
            => /\ readerState' = "exited"
               /\ UNCHANGED <<arrived, reads, appendedTo>>
               /\ output_buffer' \in {output_buffer, <<>>}
               /\ cached_output' \in {cached_output, EmptyString}]_vars

\* the reader has exited on a read error and the UI thread still polls
C8_Witness ==
    /\ readerState = "exited"
    /\ lastRead = "error"
    /\ arrived > 0
    /\ uiOp = "get_output"
    /\ returned # NoValue

(***************************************************************************)
(* Properties of the remote session                                        *)
(***************************************************************************)
\* C9: on a remote session the buffer stays empty and every get_output
\* returns the empty string, whatever was called before and whatever the
\* remote shell has sent; read_available changes nothing.
C9_RemoteOutputEmpty ==
    /\ [](remote_buffer = <<>>)
    /\ [](remoteReturned \in {NoValue, Some(EmptyString)})
    /\ [][(remoteCalls' # remoteCalls /\ remoteResult'[1] = "read_available")
            => UNCHANGED <<remote_buffer, channelOpen, channelInput, channelOutput,
                           ptySize, remoteReturned>>]_vars

\* get_output returns after input was written and the remote shell answered
C9_Witness ==
    /\ remoteReturned = Some(EmptyString)
    /\ channelInput > 0
    /\ channelOutput > 0
    /\ ptySize # <<0, 0>>
    /\ remoteResult[1] = "draw_terminal"

(***************************************************************************)
(* Properties of the event loop                                            *)
(***************************************************************************)
\* C10: a key press whose write_input fails leaves the loop running and
\* every field of the App and of the shells as it was; and whether or not
\* earlier writes failed, every key press of terminal input mode that has
\* bytes to send, on a side with a shell, calls write_input.
C10_FailedWriteIsDiscarded ==
    /\ [][(writeCalls' # writeCalls /\ lastWrite' = "err")
            => /\ loopState' = "running"
               /\ UNCHANGED <<appFields, shellUp, shellInput, transferCalls>>]_vars
    /\ [][(keys' # keys /\ confirmation_dialog = NoValue /\ show_terminal
             /\ terminal_input_mode /\ lastKey' \in SentKeys
             /\ shells[active_panel] # "None")
            => writeCalls' = writeCalls + 1]_vars

\* a write failed, the loop went on, and a later key press was passed to
\* write_input, which failed again
C10_Witness ==
    /\ loopState = "running"
    /\ show_terminal /\ terminal_input_mode
    /\ failedWrites = 2
    /\ writeCalls >= 2
    /\ lastWrite = "err"
    /\ lastKey = Key("Enter", 0)

(***************************************************************************)
(* Properties of a side whose shell failed to spawn                        *)
(***************************************************************************)
\* C11: construction succeeds with a shell absent; on a side without a shell
\* send_to_shell and clear_terminal_output return without error and change
\* nothing, and draw_terminal's text is the line "Shell not available".
C11_AbsentShellIsInert ==
    /\ [][(keys' # keys /\ confirmation_dialog = NoValue /\ show_terminal
             /\ terminal_input_mode /\ lastKey' \in SentKeys
             /\ shells[active_panel] = "None")
            => /\ loopState' = "running"
               /\ UNCHANGED <<appFields, shellUp, shellInput, shellClears,
                              writeCalls, failedWrites, lastWrite>>]_vars
    /\ [][(paneCalls' # paneCalls /\ lastPaneCall'[1] = "clear_terminal_output"
             /\ shells[active_panel] = "None")
            => /\ loopState' = "running"
               /\ UNCHANGED <<appFields, shellUp, shellInput, shellClears,
                              writeCalls, failedWrites, lastWrite, terminalText>>]_vars
    /\ [](\A sd \in Sides :
            (lastPaneCall = <<"draw_terminal", sd>> /\ shells[sd] = "None")
              => terminalText = Some(<<"text", "Shell not available">>))

\* with the left shell absent: a key was sent in input mode, then the pane
\* was cleared and drawn
C11_Witness ==
    /\ shells["Left"] = "None"
    /\ active_panel = "Left"
    /\ terminal_input_mode
    /\ lastKey \in SentKeys
    /\ paneCalls = 2
    /\ lastPaneCall = <<"draw_terminal", "Left">>
    /\ terminalText = Some(<<"text", "Shell not available">>)
    /\ loopState = "running"

\* C12: after construction with a failed spawn the status message is set
\* to a text reporting the failure.
C12_SpawnFailureReported ==
    (keys = 0 /\ \E sd \in Sides : shells[sd] = "None") => status_message # NoValue

Reads(token) ==
    /\ tokens' # tokens
    /\ lastToken' = token
    /\ processAt.mode = "ground"

Printables == { <<65>>, <<88>> }

\* the cells of a row that exist before the step are the same after it,
\* except the one at column `col`
RowKept(row, col) ==
    \A i \in 1..Len(Row(terminal_buffer, row)) :
        i # col + 1 =>
            /\ i <= Len(Row(terminal_buffer', row))
            /\ Row(terminal_buffer', row)[i] = Row(terminal_buffer, row)[i]

OtherRowsKept(row) ==
    \A r \in (DOMAIN terminal_buffer.lines.rows
              \cup DOMAIN terminal_buffer'.lines.rows) \ {row} :
        Row(terminal_buffer', r) = Row(terminal_buffer, r)

\* C14: after any input, cursor_col lies in [0, max_cols - 1].
C14_CursorColInRange ==
    terminal_buffer.cursor_col \in 0..(terminal_buffer.max_cols - 1)

\* C15: no row is indexed at or beyond the grid's length, and every row that
\* holds cells lies below it, wherever the cursor row was moved before.
C15_RowsMaterialized ==
    /\ ~terminal_buffer.fault
    /\ \A r \in DOMAIN terminal_buffer.lines.rows : r < terminal_buffer.lines.len

\* a character was written on a row beyond the rows the grid started with
C15_Witness ==
    /\ terminal_buffer.lines.len > MAX_LINES
    /\ terminal_buffer.cursor_row >= MAX_LINES
    /\ Row(terminal_buffer, terminal_buffer.cursor_row) # <<>>
    /\ lastToken \in Printables

\* the texts of the line records
LineTexts(lns) == [i \in 1..Len(lns) |-> LineText(lns[i])]

\* text of printable characters and '\n' only
IsPlainText(s) ==
    /\ s # <<>>
    /\ \A i \in 1..Len(s) : s[i] = 10 \/ ~IsControl(s[i])

\* C16: for plain text the line texts of to_lines are the input split on '\n'.
C16_PlainTextLines ==
    (inputText # NoValue /\ IsPlainText(inputText[1]))
        => LineTexts(ToLines(terminal_buffer)) = Split(inputText[1], 10)

\* C17: a printable character read with cursor_col <= max_cols - 1 is stored
\* with the current style at the cursor and no existing cell changes; only an
\* SGR sequence changes the current style, and a change of style changes no
\* cell.
C17_WriteKeepsStyle ==
    /\ [][\A p \in Printables :
            (Reads(p) /\ terminal_buffer.cursor_col <= terminal_buffer.max_cols - 1)
              => /\ Row(terminal_buffer', terminal_buffer.cursor_row)
                        [terminal_buffer.cursor_col + 1]
                      = Cell(p[1], terminal_buffer.current_style)
                 /\ RowKept(terminal_buffer.cursor_row, terminal_buffer.cursor_col)
                 /\ OtherRowsKept(terminal_buffer.cursor_row)
                 /\ terminal_buffer'.current_style = terminal_buffer.current_style]_vars
    /\ [][terminal_buffer'.current_style # terminal_buffer.current_style
            => /\ lastToken' \in SgrTokens
               /\ terminal_buffer'.lines = terminal_buffer.lines]_vars

\* ESC[31m "Hi" ESC[0m "A": one run "Hi" in red, then "A" in the default style
C17_Witness ==
    /\ ToLines(terminal_buffer) =
          << << [content |-> <<72, 105>>,
                 style |-> [DefaultStyle EXCEPT !.fg = Color("Red")]],
                [content |-> <<65>>, style |-> DefaultStyle] >> >>
    /\ terminal_buffer.current_style = DefaultStyle
    /\ lastToken = <<65>>

TabMoves ==
    LET c == terminal_buffer.cursor_col
        stop == 8 * ((c \div 8) + 1)
    IN  /\ terminal_buffer'.cursor_col = stop
        /\ terminal_buffer'.cursor_row = terminal_buffer.cursor_row
        /\ \A i \in c..(stop - 1) :
              /\ i < Len(Row(terminal_buffer', terminal_buffer.cursor_row))
              /\ Row(terminal_buffer', terminal_buffer.cursor_row)[i + 1]
                   = Cell(32, terminal_buffer.current_style)

PositionTokens ==
    { <<Csi(Digits(5) \o <<59>> \o Digits(10), 72), 4, 9>>,
      <<Csi(<<>>, 72), 0, 0>>,
      <<Csi(<<59>> \o Digits(3), 102), 0, 2>>,
      <<Csi(Digits(1) \o <<59>> \o Digits(201), 72), 0, 200>>,
      <<Csi(Digits(1002), 72), 1001, 0>> }

\* C20: CSI r;c H (or f) puts the cursor at (r-1, c-1); a printable
\* character read next is stored there, and no other cell of that row is
\* created or altered.
C20_PositionedWrite ==
    /\ [][\A p \in PositionTokens :
            Reads(p[1]) => /\ terminal_buffer'.cursor_row = p[2]
                           /\ terminal_buffer'.cursor_col = p[3]]_vars
    /\ [][\A p \in PositionTokens : \A x \in Printables :
            (lastToken = p[1] /\ terminal_buffer.cursor_row = p[2]
               /\ terminal_buffer.cursor_col = p[3] /\ Reads(x))
              => /\ Len(Row(terminal_buffer', p[2])) > p[3]
                 /\ Row(terminal_buffer', p[2])[p[3] + 1].ch = x[1]
                 /\ \A i \in 1..Len(Row(terminal_buffer', p[2])) :
                       i # p[3] + 1 =>
                          /\ i <= Len(Row(terminal_buffer, p[2]))
                          /\ Row(terminal_buffer', p[2])[i]
                               = Row(terminal_buffer, p[2])[i]]_vars

\* r is the number a + n, not a sum that wrapped
IsSum(r, a, n) == r = a + n /\ ~AddOverflows(a, n)

\* the smaller of the number a + n and cap
CappedSum(a, n, cap) == IF AddOverflows(a, n) THEN cap ELSE Min(a + n, cap)

\* C21: a cursor movement changes no cell and not the style; A gives row - N
\* floored at 0, B row + N, C column + N capped at max_cols - 1, D column - N
\* floored at 0, G column N - 1 capped at max_cols - 1, d row N - 1, with N = 1
\* when the parameter is absent.
C21_CursorMoves ==
    [][\A m \in Moves :
         Reads(Csi(m[1], m[2]))
           => LET t == terminal_buffer
                  u == terminal_buffer'
                  n == m[3]
              IN  /\ ~u.fault
                  /\ u.lines = t.lines
                  /\ u.current_style = t.current_style
                  /\ m[2] = 65 => u.cursor_row = SaturatingSub(t.cursor_row, n)
                  /\ m[2] = 66 => IsSum(u.cursor_row, t.cursor_row, n)
                  /\ m[2] = 100 => u.cursor_row = n - 1
                  /\ m[2] \in {67, 68, 71} => u.cursor_row = t.cursor_row
                  /\ m[2] = 67 => u.cursor_col = CappedSum(t.cursor_col, n, t.max_cols - 1)
                  /\ m[2] = 68 => u.cursor_col = SaturatingSub(t.cursor_col, n)
                  /\ m[2] = 71 => u.cursor_col = Min(n - 1, t.max_cols - 1)
                  /\ m[2] \in {65, 66, 100} => u.cursor_col = t.cursor_col]_vars

\* the same, for the movements whose sum fits a usize
C21_CursorMovesInRange ==
    [][\A m \in Moves :
         (Reads(Csi(m[1], m[2]))
            /\ ~(m[2] = 66 /\ AddOverflows(terminal_buffer.cursor_row, m[3]))
            /\ ~(m[2] = 67 /\ AddOverflows(terminal_buffer.cursor_col, m[3])))
           => LET t == terminal_buffer
                  u == terminal_buffer'
                  n == m[3]
              IN  /\ ~u.fault
                  /\ u.lines = t.lines
                  /\ u.current_style = t.current_style
                  /\ m[2] = 65 => u.cursor_row = SaturatingSub(t.cursor_row, n)
                  /\ m[2] = 66 => u.cursor_row = t.cursor_row + n
                  /\ m[2] = 100 => u.cursor_row = n - 1
                  /\ m[2] \in {67, 68, 71} => u.cursor_row = t.cursor_row
                  /\ m[2] = 67 => u.cursor_col = Min(t.cursor_col + n, t.max_cols - 1)
                  /\ m[2] = 68 => u.cursor_col = SaturatingSub(t.cursor_col, n)
                  /\ m[2] = 71 => u.cursor_col = Min(n - 1, t.max_cols - 1)
                  /\ m[2] \in {65, 66, 100} => u.cursor_col = t.cursor_col]_vars

\* what an erase from the cursor to the end of the display leaves
ErasedFromCursor ==
    LET t == terminal_buffer
        u == terminal_buffer'
        r == t.cursor_row
    IN  /\ Row(u, r) = SubSeq(Row(t, r), 1, Min(t.cursor_col, Len(Row(t, r))))
        /\ \A x \in DOMAIN t.lines.rows \cup DOMAIN u.lines.rows :
              /\ x > r => Row(u, x) = <<>>
              /\ x < r => Row(u, x) = Row(t, x)
        /\ u.cursor_row = t.cursor_row
        /\ u.cursor_col = t.cursor_col

\* what an erase of the whole display leaves
ErasedAll ==
    /\ DOMAIN terminal_buffer'.lines.rows = {}
    /\ terminal_buffer'.cursor_row = 0
    /\ terminal_buffer'.cursor_col = 0

\* "A" read right after CSI 2 J is the only line, at (0, 0)
OnlyLineAfterClear ==
    (lastToken = Csi(Digits(2), 74) /\ Reads(<<65>>))
      => /\ ToLines(terminal_buffer') =
               << << [content |-> <<65>>, style |-> terminal_buffer.current_style] >> >>
         /\ DOMAIN terminal_buffer'.lines.rows = {0}

\* C22: CSI J with mode 0 or no parameter erases from the cursor
\* to the end of the display, with mode 2 erases every row and homes the
\* cursor, with every other mode changes nothing; "A" after CSI 2 J is the
\* only line.
C22_EraseDisplayAnyMode ==
    [][/\ (Reads(Csi(<<>>, 74)) \/ Reads(Csi(Digits(0), 74))) => ErasedFromCursor
       /\ Reads(Csi(Digits(2), 74)) => ErasedAll
       /\ \A p \in {Digits(1), Digits(3), TooLargeDigits} :
             Reads(Csi(p, 74)) => terminal_buffer' = terminal_buffer
       /\ OnlyLineAfterClear]_vars

\* the same, where the other modes are those that parse as a usize; a
\* parameter that does not (here a number above usize::MAX) acts as mode 0
C22_EraseDisplay ==
    [][/\ (Reads(Csi(<<>>, 74)) \/ Reads(Csi(Digits(0), 74))
           \/ Reads(Csi(TooLargeDigits, 74))) => ErasedFromCursor
       /\ Reads(Csi(Digits(2), 74)) => ErasedAll
       /\ \A p \in {Digits(1), Digits(3)} :
             Reads(Csi(p, 74)) => terminal_buffer' = terminal_buffer
       /\ OnlyLineAfterClear]_vars

\* three rows of text, CSI 2 J, then "A": one row, "A" at (0, 0)
C22_Witness ==
    /\ tokens = 3
    /\ lastToken = <<65>>
    /\ terminal_buffer.lines.rows = (0 :> <<Cell(65, DefaultStyle)>>)
    /\ terminal_buffer.cursor_row = 0
    /\ terminal_buffer.cursor_col = 1

\* C23: CSI 1 K makes every existing cell of the current row at columns 0 to
\* cursor_col, that one included, a space in the current style, keeps the
\* row's length and changes no other cell, no other row and not the cursor.
C23_EraseToCursorInclusive ==
    [][Reads(Csi(Digits(1), 75))
         => LET t == terminal_buffer
                u == terminal_buffer'
                cells == Row(t, t.cursor_row)
                after == Row(u, t.cursor_row)
            IN  /\ Len(after) = Len(cells)
                /\ \A i \in 1..Len(cells) :
                      after[i] = IF i - 1 <= t.cursor_col
                                 THEN Cell(32, t.current_style) ELSE cells[i]
                /\ OtherRowsKept(t.cursor_row)
                /\ u.cursor_row = t.cursor_row
                /\ u.cursor_col = t.cursor_col]_vars

\* C24: CSI K with mode 0 or no parameter truncates the current row at
\* cursor_col, with mode 2 empties it; the other rows, the cursor and the
\* current style stay.
C24_EraseLine ==
    [][\A p \in {<<>>, Digits(0), Digits(2)} :
         Reads(Csi(p, 75))
           => LET t == terminal_buffer
                  u == terminal_buffer'
                  cells == Row(t, t.cursor_row)
              IN  /\ Row(u, t.cursor_row) =
                        IF p = Digits(2) THEN <<>>
                        ELSE SubSeq(cells, 1, Min(t.cursor_col, Len(cells)))
                  /\ OtherRowsKept(t.cursor_row)
                  /\ u.cursor_row = t.cursor_row
                  /\ u.cursor_col = t.cursor_col
                  /\ u.current_style = t.current_style]_vars

\* "Hi", cursor back, CSI K: "H" is left and the cursor is at column 1
C24_Witness ==
    /\ lastToken = Csi(<<>>, 75)
    /\ terminal_buffer.cursor_col = 1
    /\ Row(terminal_buffer, terminal_buffer.cursor_row) = <<Cell(72, DefaultStyle)>>

\* the step wrote exactly the characters of txt from the cursor on, in the
\* current style, and changed nothing else
WritesText(txt) ==
    LET t == terminal_buffer
        u == terminal_buffer'
        r == t.cursor_row
        c == t.cursor_col
    IN  /\ ~u.fault
        /\ u.cursor_row = r
        /\ u.cursor_col = c + Len(txt)
        /\ u.current_style = t.current_style
        /\ txt = <<>> => u.lines = t.lines
        /\ \A i \in 1..Len(txt) :
              /\ Len(Row(u, r)) >= c + i
              /\ Row(u, r)[c + i] = Cell(txt[i], t.current_style)
        /\ \A i \in 1..Len(Row(t, r)) :
              i \notin (c + 1)..(c + Len(txt)) =>
                 /\ i <= Len(Row(u, r))
                 /\ Row(u, r)[i] = Row(t, r)[i]
        /\ OtherRowsKept(r)
        /\ processAt' = processAt

\* C25: a CSI sequence with a command the interpreter does not implement is
\* consumed whole, changes neither cursor, grid nor style, writes none of
\* its characters, and the character after it lands at the cursor position
\* held before the sequence.
C25_IgnoredCsiConsumed ==
    [][\A e \in IgnoredCsi \cup IgnoredCsiIntermediate :
         Reads(e[1]) => WritesText(e[2])]_vars

\* the same for the sequences made of digits, ';', '?' and the command
C25_IgnoredCsiOfParameters ==
    [][\A e \in IgnoredCsi : Reads(e[1]) => WritesText(e[2])]_vars

\* C26: ESC ] discards through the first BEL or ESC \, ESC ( and ESC ) one
\* further character, ESC = and ESC > nothing further, any other ESC x
\* exactly x; cursor, grid and style stay, and the input after that extent
\* is processed as ordinary input.
C26_EscapeFormsDiscarded ==
    [][\A e \in EscapeForms : Reads(e[1]) => WritesText(e[2])]_vars

\* ESC]t BEL X ESC\ A after "Hi": the string ends at the BEL, "X" and "A"
\* follow "Hi"
C26_Witness ==
    /\ lastToken = <<27, 93, 116, 7, 88, 27, 92, 65>>
    /\ LineTexts(ToLines(terminal_buffer)) = << <<72, 105, 88, 65>> >>
    /\ terminal_buffer.cursor_col = 4

\* the cells of a row that the spans before span k cover
CellsBefore(line, k) == Len(LineText(SubSeq(line, 1, k - 1)))

\* C27: to_lines gives one line per row that holds a cell, in row order, and
\* none for the others; a line's run texts joined are the row's characters
\* in column order, every cell of a run has the run's style, and adjacent
\* runs differ in style.
C27_LinesAreStyleRuns ==
    LET t == terminal_buffer
        order == RowsInOrder({r \in 0..(t.lines.len - 1) : Row(t, r) # <<>>})
        lns == ToLinesByLoop(t)
    IN  /\ Len(lns) = Len(order)
        /\ ToLines(t) = lns
        /\ \A k \in 1..Len(lns) :
              LET cells == Row(t, order[k])
                  line == lns[k]
              IN  /\ LineText(line) = [i \in 1..Len(cells) |-> cells[i].ch]
                  /\ \A j \in 1..Len(line) :
                        /\ line[j].content # <<>>
                        /\ \A i \in 1..Len(line[j].content) :
                              cells[CellsBefore(line, j) + i].style = line[j].style
                  /\ \A j \in 1..(Len(line) - 1) : line[j].style # line[j + 1].style

\* "Hi", ESC[31m, "A", then a blank line and "X": a line of two runs and a
\* line of one, nothing for the blank row between them
C27_Witness ==
    /\ DOMAIN terminal_buffer.lines.rows = {0, 2}
    /\ ToLinesByLoop(terminal_buffer) =
          << << Span(<<72, 105>>, DefaultStyle),
                Span(<<65>>, [DefaultStyle EXCEPT !.fg = Color("Red")]) >>,
             << Span(<<88>>, [DefaultStyle EXCEPT !.fg = Color("Red")]) >> >>

\* C28: the grid never holds more rows than the maximum it was constructed
\* with.
C28_RowCountBounded ==
    terminal_buffer.lines.len <= MAX_LINES

\* the style after one code of the resolver's table, 0 apart; any other
\* code leaves the style as it is
AfterCode(code, style) ==
    IF code = 1 THEN [style EXCEPT !.add_modifier = @ \cup {"BOLD"}]
    ELSE IF code = 4 THEN [style EXCEPT !.add_modifier = @ \cup {"UNDERLINED"}]
    ELSE IF code = 7 THEN [style EXCEPT !.add_modifier = @ \cup {"REVERSED"}]
    ELSE IF code \in ForegroundCodes THEN [style EXCEPT !.fg = SgrColor(code)]
    ELSE IF code \in BackgroundCodes THEN [style EXCEPT !.bg = SgrColor(code)]
    ELSE style

\* the codes applied in order, each onto the result of the one before
RECURSIVE AfterCodes(_, _)
AfterCodes(codes, style) ==
    IF codes = <<>> THEN style
    ELSE AfterCodes(Tail(codes), AfterCode(Head(codes), style))

\* the codes that follow the last 0 of a list
RECURSIVE AfterLastZero(_)
AfterLastZero(codes) ==
    IF \E i \in 1..Len(codes) : codes[i] = 0
    THEN AfterLastZero(Tail(codes)) ELSE codes

\* C29: the codes of an SGR list without 0 are applied one after the other
\* onto the current style: what earlier codes and earlier sequences set
\* stays until a code of the same kind overwrites it, and an unknown code
\* changes nothing and does not keep the codes after it from being applied.
C29_SgrCumulative ==
    [][\A codes \in SgrLists :
         (Reads(Csi(Join(codes), 109)) /\ codes # <<>> /\ \A i \in 1..Len(codes) : codes[i] # 0)
           => /\ terminal_buffer'.current_style =
                     AfterCodes(codes, terminal_buffer.current_style)
              /\ \A m \in terminal_buffer.current_style.add_modifier :
                     m \in terminal_buffer'.current_style.add_modifier
              /\ (\A i \in 1..Len(codes) : codes[i] \notin ForegroundCodes)
                     => terminal_buffer'.current_style.fg = terminal_buffer.current_style.fg
              /\ (\A i \in 1..Len(codes) : codes[i] \notin BackgroundCodes)
                     => terminal_buffer'.current_style.bg = terminal_buffer.current_style.bg]_vars

\* bold and red, then a blue background, then an unknown code and
\* underline: all four are set
C29_Witness ==
    /\ lastToken = Csi(Join(<<99, 4>>), 109)
    /\ terminal_buffer.current_style =
          [fg |-> Color("Red"), bg |-> Color("Blue"),
           add_modifier |-> {"BOLD", "UNDERLINED"}]

\* C30: CSI m and CSI 0 m set the current style to the default (white
\* foreground, no background, no modifier); a list with a code 0 in it gives
\* the default style with the codes after its last 0 applied, whatever the
\* style was and whatever codes precede the 0.
C30_SgrReset ==
    [][\A codes \in SgrLists :
         Reads(Csi(Join(codes), 109))
           => /\ codes \in {<<>>, <<0>>} =>
                    terminal_buffer'.current_style =
                       [fg |-> Color("White"), bg |-> <<>>, add_modifier |-> {}]
              /\ (\E i \in 1..Len(codes) : codes[i] = 0) =>
                    terminal_buffer'.current_style =
                       AfterCodes(AfterLastZero(codes),
                                  [fg |-> Color("White"), bg |-> <<>>, add_modifier |-> {}])]_vars

\* ESC[1;0;32m read as the second sequence: a green foreground and nothing
\* else, the bold of the same list included
C30_Witness ==
    /\ lastToken = Csi(Join(<<1, 0, 32>>), 109)
    /\ tokens = 2
    /\ terminal_buffer.current_style =
          [fg |-> Color("Green"), bg |-> <<>>, add_modifier |-> {}]

\* the style with the indexed colour n as foreground (38) or background (48)
WithIndexed(code, n, style) ==
    IF code = 38 THEN [style EXCEPT !.fg = <<"Indexed", n>>]
    ELSE [style EXCEPT !.bg = <<"Indexed", n>>]

\* C31: 38;5;N sets the foreground and 48;5;N the background to the indexed
\* colour N, for N in 0..255, and the "5" and the N are not applied as codes
\* of their own: the style is that of the codes before, the indexed colour,
\* and the codes after.
C31_IndexedColour ==
    [][\A l \in IndexedLists :
         Reads(Csi(Join(l[1] \o <<l[2], 5, l[3]>> \o l[4]), 109))
           => terminal_buffer'.current_style =
                 AfterCodes(l[4],
                    WithIndexed(l[2], l[3],
                       AfterCodes(l[1], terminal_buffer.current_style)))]_vars

\* ESC[38;5;1m read as a later sequence of the input has left foreground 1 of
\* the palette and no modifier: the 1 was not read as bold
C31_Witness ==
    /\ lastToken = Csi(Join(<<38, 5, 1>>), 109)
    /\ terminal_buffer.current_style =
          [fg |-> <<"Indexed", 1>>, bg |-> <<>>, add_modifier |-> {}]
    /\ tokens >= 2

\* C32: a list that ends after 38, 48, 38;5 or 48;5 leaves the style as the
\* codes before that 38 or 48 made it.
C32_MissingIndex ==
    [][\A l \in TruncatedLists :
         Reads(Csi(Join(l[1] \o l[2]), 109))
           => terminal_buffer'.current_style =
                 AfterCodes(l[1], terminal_buffer.current_style)]_vars

\* ESC[4;44;38;5m read with a red foreground: underline and the blue
\* background are set, the foreground is still red
C32_Witness ==
    /\ lastToken = Csi(Join(<<4, 44, 38, 5>>), 109)
    /\ terminal_buffer.current_style =
          [fg |-> Color("Red"), bg |-> Color("Blue"), add_modifier |-> {"UNDERLINED"}]

(***************************************************************************)
(* Local session: the two locks together                                   *)
(***************************************************************************)
\* C33: no thread of a local session ever holds the buffer lock and the
\* cache lock at the same time.
C33_OneLockPerThread == \A t \in {"reader", "ui"} : HeldBy(t) # Locks

\* get_output and clear_output hold at most one lock at a time; the reader
\* holds the cache lock only inside its hold of the buffer lock (shell.rs:65
\* is inside the block opened at shell.rs:58), and only there are both held.
C33_OnlyReaderNests ==
    /\ HeldBy("ui") # Locks
    /\ uiOp = "get_output" => lock["buffer"] # "ui"
    /\ lock["cache"] = "reader" => lock["buffer"] = "reader"
    /\ HeldBy("reader") = Locks
          <=> ReaderInstr \in {<<"store">>, <<"unlock", "cache">>}

\* the reader refreshes the cache with both locks held while clear_output,
\* having emptied the buffer, waits for the cache lock
C33_Witness ==
    /\ HeldBy("reader") = Locks
    /\ ReaderInstr = <<"store">>
    /\ uiOp = "clear_output"
    /\ UiInstr = <<"lock", "cache">>

\* C34: whenever the reader is not inside its append step and no
\* clear_output call is under way, the cached string is the lossy decode of
\* the raw buffer.
C34_CacheMatchesBuffer ==
    (ReaderInstr = <<"read">> /\ uiOp # "clear_output")
        => cached_output = Utf8Lossy(output_buffer)

\* the cache is always the decode of the bytes it was last written from
CacheIsDecodeOfSource == cached_output = Utf8Lossy(cachedFrom)

\* C35: once a clear_output call has returned, the cache holds no byte
\* appended before the buffer was cleared, hence none appended before the
\* call began, and what get_output returns is that cache.
C35_ClearedBytesStayGone ==
    /\ [](CacheIsDecodeOfSource)
    /\ []((clears > 0 /\ uiOp # "clear_output")
            => \A k \in 1..Len(cachedFrom) : cachedFrom[k][1] >= clearedAt)
    /\ [][(uiOp = "get_output" /\ returned' # returned /\ returned' # NoValue)
            => /\ returned' = Some(Utf8Lossy(cachedFrom))
               /\ UNCHANGED <<cachedFrom, clearedAt>>]_vars

\* after a clear_output that emptied a buffer holding output, get_output
\* returns text decoded from bytes that arrived later
C35_Witness ==
    /\ clears > 0
    /\ clearedAt > 0
    /\ uiOp = "get_output"
    /\ returned # NoValue
    /\ returned # Some(EmptyString)
    /\ cachedFrom # <<>>
    /\ cachedFrom[1][1] >= clearedAt

(***************************************************************************)
(* The virtual screen: row width                                           *)
(***************************************************************************)
\* C36: no row ever holds more than max_cols cells, and a printable
\* character read when the cursor is past the last column creates and
\* changes no cell.
C36_RowsWithinColumns ==
    /\ [](\A r \in DOMAIN terminal_buffer.lines.rows :
             Len(Row(terminal_buffer, r)) <= terminal_buffer.max_cols)
    /\ [][\A x \in Printables :
            (Reads(x) /\ processAt = Ground
               /\ ~ULt(terminal_buffer.cursor_col, terminal_buffer.max_cols))
              => terminal_buffer'.lines = terminal_buffer.lines]_vars

(***************************************************************************)
(* Eviction and the next draw                                              *)
(***************************************************************************)
\* what parse_ansi_output starts from
FreshScreen == [t |-> New(MAX_COLS, MAX_LINES), at |-> Ground]

\* characters of the text looked at after the eviction's cut
HeadLen == 8

\* the first characters of a String, HeadLen at most
StringHead(str) ==
    IF str = <<>> THEN <<>>
    ELSE IF "cps" \in DOMAIN str[1]
    THEN SubSeq(str[1].cps, 1, Min(HeadLen, Len(str[1].cps)))
    ELSE Utf8LossyBytes([i \in 1..Min(HeadLen, str[1].n) |->
                            stream[((str[1].ph + i - 1) % Len(stream)) + 1]])

\* the characters parse_ansi_output shows for the start of a text
ShownAtStart(str) ==
    LET cells == Row(ProcessFrom(FreshScreen, StringHead(str)).t, 0)
    IN  { cells[i].ch : i \in 1..Len(cells) }

\* the characters the shell's text shows when it is read whole
ShownWhole ==
    LET cells == Row(ProcessFrom(FreshScreen, stream).t, 0)
    IN  { cells[i].ch : i \in 1..Len(cells) }

\* where the interpreter is within the shell's text at arrival index i
ModeAt(i) ==
    ProcessFrom(FreshScreen, SubSeq(stream, 1, i % Len(stream))).at.mode

\* C37: after an eviction the cached text starts outside any escape
\* sequence of the shell's output, and drawing it shows no byte of a
\* sequence the eviction cut.
C37_RetainedTextStartsClean ==
    (cachedFrom # <<>> /\ cachedFrom[1][1] >= DRAIN_LEN)
        => /\ ModeAt(cachedFrom[1][1]) = "ground"
           /\ ShownAtStart(cached_output) \subseteq ShownWhole

(***************************************************************************)
(* Confirmed transfers, the panels' windows and the routing of keys        *)
(***************************************************************************)
Confirms(key) == IsChar(key, 121) \/ IsChar(key, 89)

\* C38: a confirmed Move calls delete_file only after copy_file succeeded;
\* a failed copy is followed by no delete and is reported as the failed
\* move; every confirmation takes the dialog, and nothing is run or reported
\* as a transfer while no dialog is open.
C38_MoveDeletesAfterCopy ==
    /\ [][(confirmation_dialog # NoValue /\ keys' # keys /\ Confirms(lastKey'))
            => /\ confirmation_dialog' = NoValue
               /\ confirmation_dialog[1][1] = "Move"
                    => \/ /\ transferCalls' = <<"copy_file">>
                          /\ status_message' = Some(<<"Move failed">>)
                       \/ /\ transferCalls' = <<"copy_file", "delete_file">>
                          /\ status_message' \in
                                { Some(<<"Moved">>),
                                  Some(<<"Copied but failed to delete source">>) }]_vars
    /\ [][confirmation_dialog = NoValue
            => /\ transferCalls' = transferCalls
               /\ status_message' # status_message
                    => status_message' \notin
                          { Some(<<"Moved">>), Some(<<"Move failed">>),
                            Some(<<"Copied but failed to delete source">>),
                            Some(<<"Copied">>), Some(<<"Copy failed">>),
                            Some(<<"Deleted">>), Some(<<"Delete failed">>) }]_vars

\* a Move was confirmed and its copy failed
C38_Witness ==
    /\ Confirms(lastKey)
    /\ confirmation_dialog = NoValue
    /\ transferCalls = <<"copy_file">>
    /\ status_message = Some(<<"Move failed">>)

\* C39: in a panel with visible_rows >= 1 and a listing that is not empty
\* the selected entry is an entry of the listing and lies in the window.
C39_SelectionInWindow ==
    \A sd \in Sides :
        (panels[sd].visible_rows >= 1 /\ panels[sd].entries >= 1)
            => /\ panels[sd].scroll_offset <= panels[sd].selected_index
               /\ panels[sd].selected_index
                     < panels[sd].scroll_offset + panels[sd].visible_rows
               /\ panels[sd].selected_index < panels[sd].entries

\* a key is handled in terminal input mode
InTerminalInput ==
    /\ keys' # keys
    /\ show_terminal
    /\ terminal_input_mode
    /\ confirmation_dialog = NoValue

\* C40: input mode is on only while the terminal is shown; bytes reach a
\* shell only by a key handled in input mode with no dialog open, and then
\* only the active panel's shell; a key handled in input mode changes
\* neither the active panel nor a panel's selection nor whether the
\* terminal is shown.
C40_KeysRouted ==
    /\ [](terminal_input_mode => show_terminal)
    /\ [][(shellInput' # shellInput \/ writeCalls' # writeCalls)
            => /\ InTerminalInput
               /\ lastKey' \in SentKeys
               /\ writeCalls' = writeCalls + 1
               /\ \A sd \in Sides :
                     sd # active_panel => shellInput'[sd] = shellInput[sd]]_vars
    /\ [][InTerminalInput
            => /\ UNCHANGED <<active_panel, show_terminal>>
               /\ \A sd \in Sides :
                     /\ panels'[sd].selected_index = panels[sd].selected_index
                     /\ panels'[sd].scroll_offset = panels[sd].scroll_offset
                     /\ panels'[sd].entries = panels[sd].entries]_vars

\* in input mode with the right panel active a key has reached the right
\* panel's shell, and the left panel's shell, which exists, got nothing
C40_Witness ==
    /\ show_terminal
    /\ terminal_input_mode
    /\ active_panel = "Right"
    /\ lastKey \in SentKeys
    /\ shellInput["Right"] > 0
    /\ shellInput["Left"] = 0
    /\ shells["Left"] # "None"

====
